---------------------------- MODULE Spec2Model ----------------------------
(***************************************************************************)
(* A model of the agentic planning coordinator:                            *)
(*   - scripts/update_plan_section.py : the section patcher, run by many   *)
(*     processes against one plan document under a sidecar flock;          *)
(*   - scripts/coordinator.py : the status classifier and the wave loop.   *)
(*                                                                         *)
(* Three specifications share the variables:                               *)
(*   SpecPatch    concurrent update_plan_section invocations               *)
(*   SpecClassify check_engineer_session_status as a function of its input *)
(*   Spec         coordinator_loop with its workers                        *)
(* Each leaves the variables of the other two at their idle values.        *)
(***************************************************************************)
EXTENDS Integers, Sequences, FiniteSets, TLC

VARIABLES
    \* ---- update_plan_section.py ----
    doc,        \* text of the plan file, as a sequence of tokens
    doc0,       \* history: the text before any invocation started
    lock,       \* holder of the exclusive flock on <plan>.lock, or NoProc
    ppc,        \* per process: position inside update_plan_section
    marker,     \* per process: section_marker argument
    analysis,   \* per process: text read from analysis_path
    content,    \* per process: local `content`
    new_content,\* per process: local `new_content`
    ret,        \* per process: return value ("none" while it has not returned)
    wrote,      \* history, per process: it has opened the plan for writing
    raised,     \* history, per process: the exception the call caught, or "none"
    \* ---- check_engineer_session_status, as a function ----
    c_in,       \* its input: the log file, session.pid, the pgrep answer
    c_out,      \* its result ("none" before the call)
    \* ---- coordinator_loop ----
    pc,             \* position of the loop
    wave,           \* local `wave`
    mode,           \* "auto" | "interactive"
    skip_prompts,   \* --yes
    plan_data,      \* local `plan_data`: the last parse
    todo,           \* the items of `uncompleted` the launch loop has yet to visit
    new_sessions,   \* local `new_sessions`
    active_sessions,\* local `active_sessions`
    total_sessions, \* local `total_sessions`
    all_sessions,   \* local `all_sessions`, as the set of the sessions' log files
    outcome,        \* how the loop ended ("none" while it runs)
    final_report,   \* print_final_report was called
    typed,          \* the line the operator typed at the prompt, "" if none
    logs,           \* the paths of the session logs in the log directory
    launches,       \* history: launch_engineer_in_terminal calls of this wave
    \* ---- main ----
    exit_code       \* the exit status of the process, NoExit while it runs

patchVars == <<doc, doc0, lock, ppc, marker, analysis, content, new_content, ret,
              wrote, raised>>
classifyVars == <<c_in, c_out>>
loopVars == <<pc, wave, mode, skip_prompts, plan_data, todo, new_sessions,
              active_sessions, total_sessions, all_sessions, outcome,
              final_report, typed,
              launches>>
envVars == <<logs>>
mainVars == <<exit_code>>
coordVars == <<loopVars, envVars, mainVars>>

vars == <<patchVars, classifyVars, coordVars>>

(***************************************************************************)
(* Bounds                                                                  *)
(***************************************************************************)
MaxSections == 2    \* sections of the initial plan document
MaxCalls == 2       \* concurrent update_plan_section invocations (one per process)
MaxRuns == 2        \* runs of equal lines in a session log (classifier inputs)
MaxTasks == 2       \* list items of one checklist of the initial plan
MaxWaves == 2       \* waves of one behaviour of coordinator_loop

(***************************************************************************)
(* Program constants                                                       *)
(***************************************************************************)
TailLines == 30         \* content.split('\n')[-30:]
SizeThreshold == 500    \* len(content) > 500

(***************************************************************************)
(* Plan text.  The text is a sequence of tokens; each token stands for the *)
(* literal piece of text the patcher's regular expressions look for:       *)
(*   [k |-> "H", t |-> title]  "### " followed by the heading title        *)
(*   PS   "\n**Status:** (hourglass) Analyzing..."   pending-status line   *)
(*   PC   "\n\n_Analysis pending..._"                pending-content mark  *)
(*   CS   "\n**Status:** (check) Complete"           completed-status line *)
(*   [k |-> "A", t |-> text]   "\n\n" followed by an analysis text         *)
(*   SEP  "\n---\n"  (with a heading after it: the next section boundary)  *)
(*   END  "\n<!-- ANALYST_SECTION_END -->"                                 *)
(* A title and a marker are sequences of words, so that one can be a       *)
(* prefix of another ("### {marker}.*?" matches any heading that starts    *)
(* with the marker).                                                       *)
(***************************************************************************)
PS == [k |-> "PS", t |-> <<>>]
PC == [k |-> "PC", t |-> <<>>]
CS == [k |-> "CS", t |-> <<>>]
SEP == [k |-> "SEP", t |-> <<>>]
END == [k |-> "END", t |-> <<>>]
Heading(title) == [k |-> "H", t |-> title]
AnalysisTok(text) == [k |-> "A", t |-> text]

Titles == { <<"a">>, <<"a", "x">>, <<"b">> }
Markers == Titles

\* An analysis text: an identity and whether it holds a backslash followed by
\* a letter that is no escape of a replacement template (such as "\d").
Analyses == [id : 1..MaxCalls, esc : {"none", "bad"}]

Procs == 1..MaxCalls    \* each invocation is a process of its own (__main__)
NoProc == 0
NoExit == -1    \* the process has not exited

Missing == <<[k |-> "ENOENT", t |-> <<>>]>>   \* the plan file does not exist

IsPrefix(m, t) == Len(m) <= Len(t) /\ SubSeq(t, 1, Len(m)) = m

\* "### {re.escape(section_marker)}" matches at token i
HeadMatch(text, i, m) == text[i].k = "H" /\ IsPrefix(m, text[i].t)

Min(S) == CHOOSE x \in S : \A y \in S : x <= y

(***************************************************************************)
(* re.sub(pattern, replacement, content, flags=re.DOTALL) of the           *)
(* placeholder pattern                                                     *)
(*   (### M.*?\n\*\*Status:\*\* .. Analyzing\.\.\.)\n\n_Analysis pending.. *)
(* A match starts at the leftmost heading that starts with M and has some  *)
(* pending-status line directly followed by the pending-content marker     *)
(* anywhere after it (DOTALL: ".*?" runs across lines and sections); the   *)
(* lazy ".*?" stops at the first such pair.  Group 1 runs up to and        *)
(* including the pending-status line and is kept; the pending-content      *)
(* marker is replaced by the completed-status line and the analysis.       *)
(* Every non-overlapping match is replaced.                                *)
(***************************************************************************)
PlaceholderAt(text, j) ==
    j + 1 <= Len(text) /\ text[j] = PS /\ text[j + 1] = PC

PlaceholdersAfter(text, i) == { j \in (i + 1)..Len(text) : PlaceholderAt(text, j) }

PatternStarts(text, pos, m) ==
    { i \in pos..Len(text) : HeadMatch(text, i, m) /\ PlaceholdersAfter(text, i) # {} }

RECURSIVE SubPlaceholder(_, _, _, _)
SubPlaceholder(text, pos, m, a) ==
    IF PatternStarts(text, pos, m) = {}
    THEN SubSeq(text, pos, Len(text))
    ELSE LET i == Min(PatternStarts(text, pos, m))
             j == Min(PlaceholdersAfter(text, i))
         IN  SubSeq(text, pos, j) \o <<CS, AnalysisTok(a)>>
                 \o SubPlaceholder(text, j + 2, m, a)

(***************************************************************************)
(* The fallback: re.sub of                                                 *)
(*   (### M.*?)((?:\n---\n### |\n<!-- ANALYST_SECTION_END -->))            *)
(* with append_analysis: group 1, the completed-status line, the analysis, *)
(* group 2.  Group 2 is the first section boundary (a separator followed   *)
(* by the "### " of the next heading) or end marker after the heading.     *)
(* The "### " of the next heading is consumed by the match, so that        *)
(* heading cannot start the next match.                                    *)
(***************************************************************************)
BoundaryAt(text, k) ==
    \/ text[k] = END
    \/ k + 1 <= Len(text) /\ text[k] = SEP /\ text[k + 1].k = "H"

BoundariesAfter(text, i) == { k \in (i + 1)..Len(text) : BoundaryAt(text, k) }

SectionStarts(text, pos, m) ==
    { i \in pos..Len(text) : HeadMatch(text, i, m) /\ BoundariesAfter(text, i) # {} }

RECURSIVE append_analysis(_, _, _, _)
append_analysis(text, pos, m, a) ==
    IF SectionStarts(text, pos, m) = {}
    THEN SubSeq(text, pos, Len(text))
    ELSE LET i == Min(SectionStarts(text, pos, m))
             k == Min(BoundariesAfter(text, i))
             g2 == IF text[k] = END THEN 1 ELSE 2   \* tokens taken by group 2
         IN  SubSeq(text, pos, k - 1) \o <<CS, AnalysisTok(a)>>
                 \o SubSeq(text, k, k + g2 - 1)
                 \o append_analysis(text, k + g2, m, a)

\* The replacement template rf'\1\n**Status:** .. Complete\n\n{analysis}' is
\* parsed by re.sub before any matching: a bad escape in the analysis raises.
TemplateOk(a) == a.esc = "none"

\* lines 39-54: new_content from content
NewContent(text, m, a) ==
    LET first == SubPlaceholder(text, 1, m, a)
    IN  IF first = text THEN append_analysis(text, 1, m, a) ELSE first


(***************************************************************************)
(* Initial plan documents: one to MaxSections sections with distinct       *)
(* titles in the order of TitleOrder, each either holding the exact        *)
(* placeholder or only its heading (never initialized in the exact form),  *)
(* separated by "---", with or without the end marker.                     *)
(***************************************************************************)
TitleOrder == << <<"a">>, <<"a", "x">>, <<"b">> >>

TitleIndex(t) == CHOOSE i \in 1..Len(TitleOrder) : TitleOrder[i] = t

SectionText(title, st) ==
    IF st = "pending" THEN <<Heading(title), PS, PC>> ELSE <<Heading(title)>>

SectionLists ==
    UNION { { s \in [1..n -> Titles \X {"pending", "bare"}] :
                \A i, j \in 1..n :
                    i < j => TitleIndex(s[i][1]) < TitleIndex(s[j][1]) } :
            n \in 1..MaxSections }

RECURSIVE JoinSections(_, _)
JoinSections(s, i) ==
    IF i > Len(s) THEN <<>>
    ELSE (IF i > 1 THEN <<SEP>> ELSE <<>>)
             \o SectionText(s[i][1], s[i][2]) \o JoinSections(s, i + 1)

InitialDocs ==
    { JoinSections(s, 1) \o tail : s \in SectionLists, tail \in {<<>>, <<END>>} }

(***************************************************************************)
(* update_plan_section, one action per step of the invocation.             *)
(***************************************************************************)
\* A lock that excludes nobody (LOCK_SH taken, or the flock call left out).
FlockGranted_Shared(p) == TRUE

\* fcntl.flock(fd, LOCK_EX) returns only while no other open file
\* description holds the lock (line 32)
FlockGranted(p) == lock = NoProc

\* What a system call of the invocation does: it succeeds or it raises
\* (OSError, UnicodeDecodeError, ...).
IoResults == {"ok", "error"}

\* The exit status with the two values exchanged.
ExitCode_Swapped(r) == IF r = "True" THEN 1 ELSE 0

\* exit status of the tool: sys.exit(0 if success else 1), lines 125-126
ExitCode(r) == IF r = "True" THEN 0 ELSE 1

\* lines 27-31: read the analysis file, open the lock file.  Either may
\* raise: the call returns False (lines 67-72) without having taken the
\* lock.  Processes are numbered in the order in which they start.
Start(p) ==
    /\ ppc[p] = "start"
    /\ \A q \in Procs : q < p => ppc[q] # "start"
    /\ \E m \in Markers, e \in {"none", "bad"}, io \in IoResults :
          /\ marker' = [marker EXCEPT ![p] = m]
          /\ IF io = "ok"
             THEN /\ analysis' = [analysis EXCEPT ![p] = [id |-> p, esc |-> e]]
                  /\ ppc' = [ppc EXCEPT ![p] = "flock"]
                  /\ UNCHANGED <<ret, raised>>
             ELSE /\ e = "none"
                  /\ ret' = [ret EXCEPT ![p] = "False"]
                  /\ raised' = [raised EXCEPT ![p] = "OSError"]
                  /\ ppc' = [ppc EXCEPT ![p] = "done"]
                  /\ UNCHANGED analysis
    /\ UNCHANGED <<doc, doc0, lock, content, new_content, wrote>>

\* line 32: blocks until the lock is granted
Acquire(p) ==
    /\ ppc[p] = "flock"
    /\ FlockGranted(p)
    /\ lock' = p
    /\ ppc' = [ppc EXCEPT ![p] = "read"]
    /\ UNCHANGED <<doc, doc0, marker, analysis, content, new_content, ret, wrote,
                   raised>>

\* lines 36-37; a missing plan raises FileNotFoundError (line 67), a plan
\* that cannot be read another exception (line 70)
ReadPlan(p) ==
    /\ ppc[p] = "read"
    /\ \E io \in IoResults :
          IF doc = Missing \/ io = "error"
          THEN /\ ret' = [ret EXCEPT ![p] = "False"]
               /\ raised' = [raised EXCEPT ![p] = IF doc = Missing
                                                  THEN "FileNotFoundError"
                                                  ELSE "OSError"]
               /\ ppc' = [ppc EXCEPT ![p] = "unlock"]
               /\ UNCHANGED content
          ELSE /\ content' = [content EXCEPT ![p] = doc]
               /\ ppc' = [ppc EXCEPT ![p] = "compute"]
               /\ UNCHANGED <<ret, raised>>
    /\ UNCHANGED <<doc, doc0, lock, marker, analysis, new_content, wrote>>

\* lines 41-54; re.error is caught at line 70
Compute(p) ==
    /\ ppc[p] = "compute"
    /\ IF TemplateOk(analysis[p])
       THEN /\ new_content' = [new_content EXCEPT
                                  ![p] = NewContent(content[p], marker[p], analysis[p])]
            /\ ppc' = [ppc EXCEPT ![p] = "open"]
            /\ UNCHANGED <<ret, raised>>
       ELSE /\ ret' = [ret EXCEPT ![p] = "False"]
            /\ raised' = [raised EXCEPT ![p] = "re.error"]
            /\ ppc' = [ppc EXCEPT ![p] = "unlock"]
            /\ UNCHANGED new_content
    /\ UNCHANGED <<doc, doc0, lock, marker, analysis, content, wrote>>

\* line 57: open(plan_path, 'w') truncates the file, or raises and leaves it
OpenForWrite(p) ==
    /\ ppc[p] = "open"
    /\ \E io \in IoResults :
          IF io = "ok"
          THEN /\ doc' = <<>>
               /\ wrote' = [wrote EXCEPT ![p] = TRUE]
               /\ ppc' = [ppc EXCEPT ![p] = "write"]
               /\ UNCHANGED <<ret, raised>>
          ELSE /\ ret' = [ret EXCEPT ![p] = "False"]
               /\ raised' = [raised EXCEPT ![p] = "OSError"]
               /\ ppc' = [ppc EXCEPT ![p] = "unlock"]
               /\ UNCHANGED <<doc, wrote>>
    /\ UNCHANGED <<doc0, lock, marker, analysis, content, new_content>>

\* lines 58-61: the whole new text is written, then return True; a write
\* that raises (ENOSPC, EIO) leaves the truncated file
WritePlan(p) ==
    /\ ppc[p] = "write"
    /\ \E io \in IoResults :
          IF io = "ok"
          THEN /\ doc' = new_content[p]
               /\ ret' = [ret EXCEPT ![p] = "True"]
               /\ UNCHANGED raised
          ELSE /\ doc' = doc
               /\ ret' = [ret EXCEPT ![p] = "False"]
               /\ raised' = [raised EXCEPT ![p] = "OSError"]
    /\ ppc' = [ppc EXCEPT ![p] = "unlock"]
    /\ UNCHANGED <<doc0, lock, marker, analysis, content, new_content, wrote>>

\* A release that is made only after a successful write.
Unlock_OnSuccess(p) ==
    /\ ppc[p] = "unlock"
    /\ lock' = IF lock = p /\ ret[p] = "True" THEN NoProc ELSE lock
    /\ ppc' = [ppc EXCEPT ![p] = "done"]
    /\ content' = [content EXCEPT ![p] = <<>>]
    /\ new_content' = [new_content EXCEPT ![p] = <<>>]
    /\ UNCHANGED <<doc, doc0, marker, analysis, ret, wrote, raised>>

\* lines 63-65: finally: flock(LOCK_UN) drops the lock of this invocation's
\* own open file description; the function returns and its locals are gone
Unlock(p) ==
    /\ ppc[p] = "unlock"
    /\ lock' = IF lock = p THEN NoProc ELSE lock
    /\ ppc' = [ppc EXCEPT ![p] = "done"]
    /\ content' = [content EXCEPT ![p] = <<>>]
    /\ new_content' = [new_content EXCEPT ![p] = <<>>]
    /\ UNCHANGED <<doc, doc0, marker, analysis, ret, wrote, raised>>

IdleClassify == c_in = [file |-> "missing", log |-> <<>>, pid |-> "none", pgrep |-> FALSE]
                /\ c_out = "none"

\* the coordinator is not running
IdleCoord ==
    /\ pc = "done"
    /\ wave = 0
    /\ mode = "auto"
    /\ skip_prompts = TRUE
    /\ plan_data = [engineers_needed |-> <<>>, engineer_checklists |-> <<>>]
    /\ todo = <<>>
    /\ new_sessions = <<>>
    /\ active_sessions = <<>>
    /\ total_sessions = 0
    /\ all_sessions = {}
    /\ outcome = "none"
    /\ final_report = FALSE
    /\ typed = ""
    /\ logs = {}
    /\ launches = <<>>
    /\ exit_code = NoExit

InitPatch ==
    /\ IdleClassify
    /\ IdleCoord
    /\ doc \in InitialDocs \cup {Missing}
    /\ doc0 = doc
    /\ lock = NoProc
    /\ ppc = [p \in Procs |-> "start"]
    /\ marker = [p \in Procs |-> <<>>]
    /\ analysis = [p \in Procs |-> [id |-> p, esc |-> "none"]]
    /\ content = [p \in Procs |-> <<>>]
    /\ new_content = [p \in Procs |-> <<>>]
    /\ ret = [p \in Procs |-> "none"]
    /\ wrote = [p \in Procs |-> FALSE]
    /\ raised = [p \in Procs |-> "none"]

NextPatch ==
    /\ UNCHANGED <<classifyVars, coordVars>>
    /\ \E p \in Procs :
        \/ Start(p)
        \/ Acquire(p)
        \/ ReadPlan(p)
        \/ Compute(p)
        \/ OpenForWrite(p)
        \/ WritePlan(p)
        \/ Unlock(p)

SpecPatch == InitPatch /\ [][NextPatch]_vars

(***************************************************************************)
(* Sections of a text, for the statements about the patcher.               *)
(***************************************************************************)
HeadingsOf(text, title) == { i \in 1..Len(text) : text[i] = Heading(title) }

\* The section headed exactly `title`: from its heading up to the next
\* section boundary, the end marker or the end of the text.
SectionOf(text, title) ==
    IF HeadingsOf(text, title) = {} THEN <<>>
    ELSE LET i == Min(HeadingsOf(text, title))
             e == IF BoundariesAfter(text, i) = {} THEN Len(text) + 1
                  ELSE Min(BoundariesAfter(text, i))
         IN  SubSeq(text, i, e - 1)

Count(text, tok) == Cardinality({ i \in 1..Len(text) : text[i] = tok })

Contains(text, tok) == \E i \in 1..Len(text) : text[i] = tok

\* the exact placeholder of marker m: heading, pending status, pending content
HasPlaceholder(text, m) ==
    \E i \in 1..Len(text) : text[i] = Heading(m) /\ PlaceholderAt(text, i + 1)

\* p has read the plan and has not finished writing it
InCycle(p) == ppc[p] \in {"compute", "open", "write"}

AllDone == \A p \in Procs : ppc[p] = "done"

(***************************************************************************)
(* update_plan_section invocations whose processes may die.  The lock of   *)
(* flock belongs to the open file description of the lock file (line 31):  *)
(* when the process dies the kernel closes its descriptors and the lock is *)
(* gone.  A process that runs takes its next step; whether and when a      *)
(* process dies is not constrained.                                        *)
(***************************************************************************)
Alive(p) == ppc[p] \in {"flock", "read", "compute", "open", "write", "unlock"}

\* The death of a process whose lock stays behind (as with a lock file
\* created with O_EXCL and removed by its owner).
Crash_LockStays(p) ==
    /\ Alive(p)
    /\ ppc' = [ppc EXCEPT ![p] = "dead"]
    /\ marker' = [marker EXCEPT ![p] = <<>>]
    /\ analysis' = [analysis EXCEPT ![p] = [id |-> p, esc |-> "none"]]
    /\ content' = [content EXCEPT ![p] = <<>>]
    /\ new_content' = [new_content EXCEPT ![p] = <<>>]
    /\ UNCHANGED <<lock, doc, doc0, ret, wrote, raised>>

\* the process of invocation p is killed or crashes between two steps; its
\* arguments and locals go with it
Crash(p) ==
    /\ Alive(p)
    /\ ppc' = [ppc EXCEPT ![p] = "dead"]
    /\ lock' = IF lock = p THEN NoProc ELSE lock
    /\ marker' = [marker EXCEPT ![p] = <<>>]
    /\ analysis' = [analysis EXCEPT ![p] = [id |-> p, esc |-> "none"]]
    /\ content' = [content EXCEPT ![p] = <<>>]
    /\ new_content' = [new_content EXCEPT ![p] = <<>>]
    /\ UNCHANGED <<doc, doc0, ret, wrote, raised>>

ProcessDies ==
    /\ UNCHANGED <<classifyVars, coordVars>>
    /\ \E p \in Procs : Crash(p)

\* the next step of invocation p
PatchStep(p) ==
    /\ UNCHANGED <<classifyVars, coordVars>>
    /\ \/ Start(p)
       \/ Acquire(p)
       \/ ReadPlan(p)
       \/ Compute(p)
       \/ OpenForWrite(p)
       \/ WritePlan(p)
       \/ Unlock(p)

NextCrash ==
    \/ NextPatch
    \/ ProcessDies

\* a plan with one pending section, or no plan at all
CrashDocs == { <<Heading(<<"a">>), PS, PC, END>>, Missing }

InitCrash == InitPatch /\ doc \in CrashDocs

SpecCrash ==
    /\ InitCrash
    /\ [][NextCrash]_vars
    /\ \A p \in Procs : WF_vars(PatchStep(p))

(***************************************************************************)
(* add_tasks_to_table (lines 74-114), one action per step of the call.     *)
(* The task table of the plan: a header row, the rows, and after a blank   *)
(* line the rule and the heading "## 6." that end it.  The row of the      *)
(* placeholder is                                                          *)
(*   | _TBD_ | _Analysts identifying tasks..._ | _TBD_ | _TBD_ | _TBD_ |   *)
(* tasks_content is kept in analysis[p]: its identity, and whether it      *)
(* holds a backslash that is no escape of a replacement template.          *)
(***************************************************************************)
TH == [k |-> "TH", t |-> <<>>]       \* the header row of the table
TBD == [k |-> "TBD", t |-> <<>>]     \* the placeholder row
ROW == [k |-> "ROW", t |-> <<>>]     \* a row written earlier
S6 == [k |-> "S6", t |-> <<>>]       \* "\n---\n\n## 6." after the table
TasksTok(text) == [k |-> "TASKS", t |-> text]   \* the rows of tasks_content

\* "\|[^\n]+\|": a line that starts and ends with "|"
IsRow(tok) == tok.k \in {"TH", "TBD", "ROW", "TASKS"}

\* line 89: content.replace(row, tasks_content) replaces every occurrence
RECURSIVE ReplaceTBD(_, _)
ReplaceTBD(text, a) ==
    IF text = <<>> THEN <<>>
    ELSE (IF Head(text) = TBD THEN <<TasksTok(a)>> ELSE <<Head(text)>>)
             \o ReplaceTBD(Tail(text), a)

\* lines 95-100: re.sub of (\|[^\n]+\|)\n(\n---\n\n## 6\.) by
\* \1\n{tasks_content}\n\2: the rows go behind the last row of the table
RECURSIVE AppendRows(_, _, _)
AppendRows(text, i, a) ==
    IF i > Len(text) THEN <<>>
    ELSE IF i + 1 <= Len(text) /\ IsRow(text[i]) /\ text[i + 1] = S6
    THEN <<text[i], TasksTok(a), S6>> \o AppendRows(text, i + 2, a)
    ELSE <<text[i]>> \o AppendRows(text, i + 1, a)

\* lines 87-100
TableContent(text, a) ==
    IF Contains(text, TBD) THEN ReplaceTBD(text, a) ELSE AppendRows(text, 1, a)

\* The call that locks a file of its own instead of "{plan_path}.lock".
AddFlockGranted_OwnFile(p) == TRUE

\* line 76: lock_path is f"{plan_path}.lock", the file update_plan_section
\* locks (line 23); flock(LOCK_EX) returns while nobody holds it
AddFlockGranted(p) == FlockGranted(p)

\* line 79: open the lock file; if that raises the call returns False
\* (lines 112-114) without the lock
AddStart(p) ==
    /\ ppc[p] = "add_start"
    /\ \E e \in {"none", "bad"}, io \in IoResults :
          IF io = "ok"
          THEN /\ analysis' = [analysis EXCEPT ![p] = [id |-> p, esc |-> e]]
               /\ ppc' = [ppc EXCEPT ![p] = "add_flock"]
               /\ UNCHANGED <<ret, raised>>
          ELSE /\ e = "none"
               /\ ret' = [ret EXCEPT ![p] = "False"]
               /\ raised' = [raised EXCEPT ![p] = "OSError"]
               /\ ppc' = [ppc EXCEPT ![p] = "done"]
               /\ UNCHANGED analysis
    /\ UNCHANGED <<doc, doc0, lock, marker, content, new_content, wrote>>

\* line 80
AddAcquire(p) ==
    /\ ppc[p] = "add_flock"
    /\ AddFlockGranted(p)
    /\ lock' = p
    /\ ppc' = [ppc EXCEPT ![p] = "add_read"]
    /\ UNCHANGED <<doc, doc0, marker, analysis, content, new_content, ret, wrote,
                   raised>>

\* lines 83-84
AddRead(p) ==
    /\ ppc[p] = "add_read"
    /\ \E io \in IoResults :
          IF doc = Missing \/ io = "error"
          THEN /\ ret' = [ret EXCEPT ![p] = "False"]
               /\ raised' = [raised EXCEPT ![p] = IF doc = Missing
                                                  THEN "FileNotFoundError"
                                                  ELSE "OSError"]
               /\ ppc' = [ppc EXCEPT ![p] = "add_unlock"]
               /\ UNCHANGED content
          ELSE /\ content' = [content EXCEPT ![p] = doc]
               /\ ppc' = [ppc EXCEPT ![p] = "add_compute"]
               /\ UNCHANGED <<ret, raised>>
    /\ UNCHANGED <<doc, doc0, lock, marker, analysis, new_content, wrote>>

\* lines 87-100: str.replace takes any text; the template of re.sub raises
\* re.error on a bad escape (caught at line 112)
AddCompute(p) ==
    /\ ppc[p] = "add_compute"
    /\ IF Contains(content[p], TBD) \/ TemplateOk(analysis[p])
       THEN /\ new_content' = [new_content EXCEPT
                                  ![p] = TableContent(content[p], analysis[p])]
            /\ ppc' = [ppc EXCEPT ![p] = "add_open"]
            /\ UNCHANGED <<ret, raised>>
       ELSE /\ ret' = [ret EXCEPT ![p] = "False"]
            /\ raised' = [raised EXCEPT ![p] = "re.error"]
            /\ ppc' = [ppc EXCEPT ![p] = "add_unlock"]
            /\ UNCHANGED new_content
    /\ UNCHANGED <<doc, doc0, lock, marker, analysis, content, wrote>>

\* line 102: open(plan_path, 'w')
AddOpenForWrite(p) ==
    /\ ppc[p] = "add_open"
    /\ \E io \in IoResults :
          IF io = "ok"
          THEN /\ doc' = <<>>
               /\ wrote' = [wrote EXCEPT ![p] = TRUE]
               /\ ppc' = [ppc EXCEPT ![p] = "add_write"]
               /\ UNCHANGED <<ret, raised>>
          ELSE /\ ret' = [ret EXCEPT ![p] = "False"]
               /\ raised' = [raised EXCEPT ![p] = "OSError"]
               /\ ppc' = [ppc EXCEPT ![p] = "add_unlock"]
               /\ UNCHANGED <<doc, wrote>>
    /\ UNCHANGED <<doc0, lock, marker, analysis, content, new_content>>

\* lines 103-106
AddWrite(p) ==
    /\ ppc[p] = "add_write"
    /\ \E io \in IoResults :
          IF io = "ok"
          THEN /\ doc' = new_content[p]
               /\ ret' = [ret EXCEPT ![p] = "True"]
               /\ UNCHANGED raised
          ELSE /\ doc' = doc
               /\ ret' = [ret EXCEPT ![p] = "False"]
               /\ raised' = [raised EXCEPT ![p] = "OSError"]
    /\ ppc' = [ppc EXCEPT ![p] = "add_unlock"]
    /\ UNCHANGED <<doc0, lock, marker, analysis, content, new_content, wrote>>

\* lines 108-109
AddUnlock(p) ==
    /\ ppc[p] = "add_unlock"
    /\ lock' = IF lock = p THEN NoProc ELSE lock
    /\ ppc' = [ppc EXCEPT ![p] = "done"]
    /\ content' = [content EXCEPT ![p] = <<>>]
    /\ new_content' = [new_content EXCEPT ![p] = <<>>]
    /\ UNCHANGED <<doc, doc0, marker, analysis, ret, wrote, raised>>

\* plans with one analyst section, the end marker and the task table
TableDocs ==
    { SectionText(<<"a">>, st) \o <<END, TH>> \o rows \o <<S6>> :
        st \in {"pending", "bare"}, rows \in {<<TBD>>, <<ROW>>, <<>>} }

\* two concurrent calls on one plan: add_tasks_to_table beside
\* update_plan_section, or two calls of add_tasks_to_table
InitTable ==
    /\ IdleClassify
    /\ IdleCoord
    /\ doc \in TableDocs
    /\ doc0 = doc
    /\ lock = NoProc
    /\ ppc \in { [p \in Procs |-> IF p = 1 THEN first ELSE "add_start"] :
                    first \in {"start", "add_start"} }
    /\ marker = [p \in Procs |-> <<>>]
    /\ analysis = [p \in Procs |-> [id |-> p, esc |-> "none"]]
    /\ content = [p \in Procs |-> <<>>]
    /\ new_content = [p \in Procs |-> <<>>]
    /\ ret = [p \in Procs |-> "none"]
    /\ wrote = [p \in Procs |-> FALSE]
    /\ raised = [p \in Procs |-> "none"]

NextTable ==
    /\ UNCHANGED <<classifyVars, coordVars>>
    /\ \E p \in Procs :
        \/ Start(p)
        \/ Acquire(p)
        \/ ReadPlan(p)
        \/ Compute(p)
        \/ OpenForWrite(p)
        \/ WritePlan(p)
        \/ Unlock(p)
        \/ AddStart(p)
        \/ AddAcquire(p)
        \/ AddRead(p)
        \/ AddCompute(p)
        \/ AddOpenForWrite(p)
        \/ AddWrite(p)
        \/ AddUnlock(p)

SpecTable == InitTable /\ [][NextTable]_vars

(***************************************************************************)
(* C2: the read-modify-write cycles of two concurrent update_plan_section  *)
(* invocations on one plan never interleave: while one invocation is       *)
(* between its read and the end of its write no other one is, and the text *)
(* an invocation is about to overwrite is still the text it read (its      *)
(* patch is applied to the current document, as in a serial execution).    *)
(***************************************************************************)
C2_NoInterleaving ==
    \A p \in Procs :
        InCycle(p) =>
            /\ \A q \in Procs \ {p} : ~InCycle(q)
            /\ ppc[p] \in {"compute", "open"} => content[p] = doc

\* one invocation is in the middle of its write while another one waits for
\* the lock
C2_Witness ==
    \E p, q \in Procs : p # q /\ ppc[p] = "write" /\ ppc[q] = "flock"

(***************************************************************************)
(* C3: when all invocations have distinct markers, the initial document    *)
(* holds the placeholder of each marker and no system call failed, every   *)
(* invocation returns True and the final document holds each analysis      *)
(* exactly once, inside the section of its own marker.                     *)
(***************************************************************************)
C3_AllContributionsOnce ==
    ( /\ AllDone
      /\ \A p \in Procs : raised[p] # "OSError"
      /\ \A p, q \in Procs : p # q => marker[p] # marker[q]
      /\ doc0 # Missing
      /\ \A p \in Procs : HasPlaceholder(doc0, marker[p]) )
    => \A p \in Procs :
          /\ ret[p] = "True"
          /\ Count(doc, AnalysisTok(analysis[p])) = 1
          /\ Contains(SectionOf(doc, marker[p]), AnalysisTok(analysis[p]))

(***************************************************************************)
(* C4: the completed write of an invocation for marker M leaves every      *)
(* section whose heading does not start with M as it was in the text the   *)
(* invocation read.                                                        *)
(***************************************************************************)
C4_OtherSectionsUnchanged ==
    [][ \A p \in Procs :
          (ppc[p] = "write" /\ ppc'[p] = "unlock" /\ ret'[p] = "True") =>
              \A t \in Titles :
                  ~IsPrefix(marker[p], t) =>
                      SectionOf(doc', t) = SectionOf(content[p], t) ]_vars

(***************************************************************************)
(* C12: an invocation that has returned, with True or with False, does not *)
(* hold the lock, and the lock is held only by an invocation between its   *)
(* flock call and its release: after every exit path (write done, plan     *)
(* missing, read error, regex error, open or write error) the lock is free *)
(* for the next invocation.                                                *)
(***************************************************************************)
C12_LockReleased ==
    /\ \A p \in Procs :
          ppc[p] = "done" => (lock # p /\ ret[p] \in {"True", "False"})
    /\ lock # NoProc => ppc[lock] \in {"read", "compute", "open", "write", "unlock"}

\* an invocation whose write raised has returned and another one holds the
\* lock
C12_Witness ==
    \E p, q \in Procs :
        /\ p # q
        /\ ppc[p] = "done"
        /\ ret[p] = "False"
        /\ wrote[p]
        /\ lock = q

(***************************************************************************)
(* C13: an invocation that failed before it opened the plan for writing    *)
(* (analysis or lock file, plan read, regex) returned False at that step   *)
(* and only releases and returns; the tool exits with 1; as long as no     *)
(* invocation has opened the plan for writing its text is the initial one. *)
(* The tool exits with 0 only after a call that wrote and returned True.   *)
(***************************************************************************)
C13_FailureLeavesPlan ==
    /\ \A p \in Procs :
          /\ (ret[p] = "False" /\ ~wrote[p])
                => (ExitCode(ret[p]) = 1 /\ ppc[p] \in {"unlock", "done"})
          /\ (ret[p] # "none" /\ ExitCode(ret[p]) = 0)
                => (ret[p] = "True" /\ wrote[p])
          /\ ret[p] = "none" => ppc[p] \notin {"unlock", "done"}
    /\ (\A q \in Procs : ~wrote[q]) => doc = doc0

\* an invocation with a good analysis failed on a plan that exists, and the
\* plan is as it was
C13_Witness ==
    \E p \in Procs :
        /\ ppc[p] = "done"
        /\ ret[p] = "False"
        /\ ~wrote[p]
        /\ raised[p] = "OSError"
        /\ doc0 # Missing
        /\ doc = doc0

(***************************************************************************)
(* C14: an invocation that has written and returns True has left its       *)
(* analysis inside the section headed by its marker.                       *)
(***************************************************************************)
C14_SuccessMeansPatched ==
    \A p \in Procs :
        (ppc[p] = "unlock" /\ ret[p] = "True")
            => Contains(SectionOf(doc, marker[p]), AnalysisTok(analysis[p]))

(***************************************************************************)
(* Session logs.  The text of a log is a sequence of runs; a run           *)
(* [kind, n] stands for n consecutive lines of one kind, joined by "\n".   *)
(* The kinds are the lines the classifier can tell apart:                  *)
(*   text, note, word, empty                                               *)
(*             ordinary lines of 16, 8, 7 and 0 characters                 *)
(*   done      a line holding the completion sentinel                      *)
(*   err       a line holding the error sentinel                           *)
(*   timeout   a line holding the timeout sentinel                         *)
(*   blocked, BLOCKED, waiting, cannot                                     *)
(*             a line holding "blocked", "BLOCKED", "waiting for",         *)
(*             "cannot proceed"                                            *)
(***************************************************************************)
LineKinds == {"text", "note", "word", "empty", "done", "err", "timeout",
              "blocked", "BLOCKED", "waiting", "cannot"}

Width(kind) ==
    CASE kind = "text" -> 16
      [] kind = "note" -> 8
      [] kind = "word" -> 7
      [] kind = "empty" -> 0
      [] kind = "done" -> 32
      [] kind = "err" -> 26
      [] kind = "timeout" -> 9
      [] kind = "blocked" -> 7
      [] kind = "BLOCKED" -> 7
      [] kind = "waiting" -> 11
      [] kind = "cannot" -> 14

RunLengths == {1, TailLines - 1, TailLines}
Runs == [kind : LineKinds, n : RunLengths]

RECURSIVE LinesFrom(_, _)
LinesFrom(log, i) ==
    IF i > Len(log) THEN 0 ELSE log[i].n + LinesFrom(log, i + 1)

RECURSIVE CharsFrom(_, _)
CharsFrom(log, i) ==
    IF i > Len(log) THEN 0 ELSE log[i].n * Width(log[i].kind) + CharsFrom(log, i + 1)

\* number of lines written in the text
LineCount(log) == LinesFrom(log, 1)

\* len(content): the characters of the lines and the "\n" between them
TextLen(log) ==
    CharsFrom(log, 1) + (IF LineCount(log) > 0 THEN LineCount(log) - 1 ELSE 0)

\* `kind in content` for the kinds of K
HasKind(log, K) == \E i \in 1..Len(log) : log[i].kind \in K

\* first line of run i, counting lines from 1
RunStart(log, i) == LineCount(SubSeq(log, 1, i - 1)) + 1
RunEnd(log, i) == LineCount(SubSeq(log, 1, i))

\* the kinds among content.split('\n')[-30:]
RecentKinds(log) ==
    { log[i].kind : i \in { j \in 1..Len(log) :
                              RunEnd(log, j) > LineCount(log) - TailLines } }

\* .lower() makes "BLOCKED" a match of "blocked"
BlockingKinds == {"blocked", "BLOCKED", "waiting", "cannot"}

(***************************************************************************)
(* check_engineer_session_status (lines 470-535).                          *)
(*   file   "missing" | "unreadable" (read_text raises) | "ok"             *)
(*   log    the text of the file when it can be read                       *)
(*   pid    session.pid: "none" | "alive" | "dead" (os.kill(pid, 0))       *)
(*   pgrep  pgrep -f 'cursor.*agent.*{name}' printed a process             *)
(***************************************************************************)
\* The cascade with the keyword rule moved in front of the sentinel rules.
check_status_KeywordsFirst(file, log, pid, pgrep) ==
    IF file = "missing" THEN "working"
    ELSE IF file = "unreadable" THEN "working"
    ELSE IF RecentKinds(log) \cap BlockingKinds # {} THEN "blocked"
    ELSE IF HasKind(log, {"done"}) THEN "completed"
    ELSE IF HasKind(log, {"err"}) THEN "error"
    ELSE IF HasKind(log, {"timeout"}) THEN "error"
    ELSE IF pid = "alive" \/ pgrep THEN "working"
    ELSE IF TextLen(log) > SizeThreshold THEN "completed"
    ELSE "error"

\* The cascade with the liveness rule moved in front of the sentinel rules.
check_status_LivenessFirst(file, log, pid, pgrep) ==
    IF file = "missing" THEN "working"
    ELSE IF file = "unreadable" THEN "working"
    ELSE IF pid = "alive" \/ pgrep THEN "working"
    ELSE IF HasKind(log, {"done"}) THEN "completed"
    ELSE IF HasKind(log, {"err"}) THEN "error"
    ELSE IF HasKind(log, {"timeout"}) THEN "error"
    ELSE IF RecentKinds(log) \cap BlockingKinds # {} THEN "blocked"
    ELSE IF TextLen(log) > SizeThreshold THEN "completed"
    ELSE "error"

\* The cascade with the keywords looked for in the whole text.
check_status_WholeText(file, log, pid, pgrep) ==
    IF file = "missing" THEN "working"
    ELSE IF file = "unreadable" THEN "working"
    ELSE IF HasKind(log, {"done"}) THEN "completed"
    ELSE IF HasKind(log, {"err"}) THEN "error"
    ELSE IF HasKind(log, {"timeout"}) THEN "error"
    ELSE IF HasKind(log, BlockingKinds) THEN "blocked"
    ELSE IF pid = "alive" \/ pgrep THEN "working"
    ELSE IF TextLen(log) > SizeThreshold THEN "completed"
    ELSE "error"

\* The cascade without the handler of lines 533-535: what read_text raises
\* leaves the function.
check_status_NoHandler(file, log, pid, pgrep) ==
    IF file = "missing" THEN "working"
    ELSE IF file = "unreadable" THEN "raised"
    ELSE IF HasKind(log, {"done"}) THEN "completed"
    ELSE IF HasKind(log, {"err"}) THEN "error"
    ELSE IF HasKind(log, {"timeout"}) THEN "error"
    ELSE IF RecentKinds(log) \cap BlockingKinds # {} THEN "blocked"
    ELSE IF pid = "alive" \/ pgrep THEN "working"
    ELSE IF TextLen(log) > SizeThreshold THEN "completed"
    ELSE "error"

\* The cascade with "at least" in the size rule.
check_status_AtLeast(file, log, pid, pgrep) ==
    IF file = "missing" THEN "working"
    ELSE IF file = "unreadable" THEN "working"
    ELSE IF HasKind(log, {"done"}) THEN "completed"
    ELSE IF HasKind(log, {"err"}) THEN "error"
    ELSE IF HasKind(log, {"timeout"}) THEN "error"
    ELSE IF RecentKinds(log) \cap BlockingKinds # {} THEN "blocked"
    ELSE IF pid = "alive" \/ pgrep THEN "working"
    ELSE IF TextLen(log) >= SizeThreshold THEN "completed"
    ELSE "error"

check_engineer_session_status(file, log, pid, pgrep) ==
    IF file = "missing" THEN "working"
    ELSE IF file = "unreadable" THEN "working"
    ELSE IF HasKind(log, {"done"}) THEN "completed"
    ELSE IF HasKind(log, {"err"}) THEN "error"
    ELSE IF HasKind(log, {"timeout"}) THEN "error"
    ELSE IF RecentKinds(log) \cap BlockingKinds # {} THEN "blocked"
    ELSE IF pid = "alive" \/ pgrep THEN "working"
    ELSE IF TextLen(log) > SizeThreshold THEN "completed"
    ELSE "error"

LogTexts == UNION { [1..n -> Runs] : n \in 0..MaxRuns }

ClassifyInputs ==
    [file : {"ok"}, log : LogTexts, pid : {"none", "alive", "dead"}, pgrep : BOOLEAN]
    \cup [file : {"missing", "unreadable"}, log : {<<>>},
          pid : {"none", "alive", "dead"}, pgrep : BOOLEAN]

IdlePatch ==
    /\ doc = <<>>
    /\ doc0 = <<>>
    /\ lock = NoProc
    /\ ppc = [p \in Procs |-> "done"]
    /\ marker = [p \in Procs |-> <<>>]
    /\ analysis = [p \in Procs |-> [id |-> p, esc |-> "none"]]
    /\ content = [p \in Procs |-> <<>>]
    /\ new_content = [p \in Procs |-> <<>>]
    /\ ret = [p \in Procs |-> "none"]
    /\ wrote = [p \in Procs |-> FALSE]
    /\ raised = [p \in Procs |-> "none"]

InitClassify ==
    /\ IdlePatch
    /\ IdleCoord
    /\ c_in \in ClassifyInputs
    /\ c_out = "none"

Classify ==
    /\ c_out = "none"
    /\ c_out' = check_engineer_session_status(c_in.file, c_in.log, c_in.pid, c_in.pgrep)
    /\ UNCHANGED c_in

NextClassify ==
    /\ UNCHANGED <<patchVars, coordVars>>
    /\ Classify

SpecClassify == InitClassify /\ [][NextClassify]_vars

(***************************************************************************)
(* C10: sentinels come before every later rule.  A readable log holding    *)
(* the completion sentinel is Completed, and one holding the error or the  *)
(* timeout sentinel and no completion sentinel is Error, also when a       *)
(* blocking keyword stands in its last 30 lines (and whatever the process  *)
(* state and the length of the log).                                       *)
(***************************************************************************)
C10_SentinelsFirst ==
    (c_out # "none" /\ c_in.file = "ok") =>
        /\ HasKind(c_in.log, {"done"}) => c_out = "completed"
        /\ (HasKind(c_in.log, {"err", "timeout"}) /\ ~HasKind(c_in.log, {"done"}))
               => c_out = "error"

\* a classified log whose last line holds a blocking keyword, after a
\* completion sentinel
C10_Witness ==
    /\ c_out = "completed"
    /\ c_in.file = "ok"
    /\ HasKind(c_in.log, {"done"})
    /\ RecentKinds(c_in.log) \cap BlockingKinds # {}

(***************************************************************************)
(* C11 as stated: a log that holds the error sentinel is classified Error, *)
(* whatever the process state.                                             *)
(***************************************************************************)
C11_ErrorSentinelAlways ==
    (c_out # "none" /\ c_in.file = "ok" /\ HasKind(c_in.log, {"err"}))
        => c_out = "error"

(***************************************************************************)
(* C11 amended: a readable log that holds the error sentinel and not the   *)
(* completion sentinel is classified Error, whether or not the process is  *)
(* alive by its pid or by the process-name match.                          *)
(***************************************************************************)
C11_ErrorSentinel ==
    (c_out # "none" /\ c_in.file = "ok" /\ HasKind(c_in.log, {"err"})
                   /\ ~HasKind(c_in.log, {"done"}))
        => c_out = "error"

\* an error log of a session whose process is alive both ways
C11_Witness ==
    /\ c_out = "error"
    /\ c_in.file = "ok"
    /\ HasKind(c_in.log, {"err"})
    /\ c_in.pid = "alive"
    /\ c_in.pgrep

(***************************************************************************)
(* The plan as the coordinator reads it.  The same text carries the        *)
(* checklists:                                                             *)
(*   [k |-> "EN", t |-> words]      an "engineers needed: ..." line        *)
(*   [k |-> "CL", t |-> <<name>>]   a heading "## <name>'s checklist"      *)
(*   [k |-> "T", t |-> <<bullet, box, description>>]                       *)
(*                                  a list item "<bullet> [<box>] text"    *)
(***************************************************************************)
ENGINEERS == <<"Alex", "Betty", "Cleo", "Dany", "Eddy">>

Needed(words) == [k |-> "EN", t |-> words]
Checklist(name) == [k |-> "CL", t |-> <<name>>]
TaskLine(bullet, box, desc) == [k |-> "T", t |-> <<bullet, box, desc>>]

\* str.lower() on the names that occur
Lower(name) ==
    CASE name = "Alex" -> "alex"
      [] name = "ALEX" -> "alex"
      [] name = "Betty" -> "betty"
      [] name = "Cleo" -> "cleo"
      [] name = "Dany" -> "dany"
      [] name = "Eddy" -> "eddy"
      [] name = "Zed" -> "zed"
      [] name = "X" -> "x"
      [] name = "Alexis" -> "alexis"
      [] OTHER -> name

Range(f) == { f[i] : i \in DOMAIN f }

\* lines 189-193: the roster name equal to `name` up to case, else `name`
NormalizeName(name) ==
    IF \E i \in 1..Len(ENGINEERS) : Lower(ENGINEERS[i]) = Lower(name)
    THEN ENGINEERS[CHOOSE i \in 1..Len(ENGINEERS) : Lower(ENGINEERS[i]) = Lower(name)]
    ELSE name

\* str.strip() on the texts that occur after a checkbox
Strip(raw) ==
    CASE raw = " a2 " -> "a2"
      [] raw = "a3  " -> "a3"
      [] raw = "  b1" -> "b1"
      [] OTHER -> raw

\* The task of a list item without the .lower() of line 199.
ParseTask_CaseSensitive(tok) ==
    [description |-> Strip(tok.t[3]), completed |-> (tok.t[2] = "x")]

\* lines 197-205: one task per list item "<bullet> [<box>] <text>"; the box
\* counts as checked when its lower case is "x", the description is the
\* text to the end of the line, stripped.  Every item carries a text.
ParseTask(tok) ==
    [description |-> Strip(tok.t[3]), completed |-> (Lower(tok.t[2]) = "x")]

RECURSIVE TasksFrom(_, _)
\* the list items from token i up to the next checklist heading
TasksFrom(text, i) ==
    IF i > Len(text) \/ text[i].k = "CL" THEN <<>>
    ELSE (IF text[i].k = "T" THEN <<ParseTask(text[i])>> ELSE <<>>)
             \o TasksFrom(text, i + 1)

\* engineer_checklists[name] = tasks on a dict kept as a sequence of entries
\* in insertion order: a known key keeps its place and gets the new value
DictSet(d, name, tasks) ==
    IF \E i \in 1..Len(d) : d[i].name = name
    THEN [i \in 1..Len(d) |-> IF d[i].name = name
                               THEN [name |-> name, tasks |-> tasks] ELSE d[i]]
    ELSE Append(d, [name |-> name, tasks |-> tasks])

\* The append of line 211 without the test that the name is not yet there.
AppendNew_Always(seq, x) == Append(seq, x)

\* lines 210-211: append unless the name is there
AppendNew(seq, x) == IF x \in Range(seq) THEN seq ELSE Append(seq, x)

\* `part in word` of two lower-case strings, on the words that occur
IsSubstring(part, word) == part = word \/ (part = "alex" /\ word = "alexis")

\* lines 173-179: the roster names the first "engineers needed" line holds,
\* each found by looking for its lower case inside the lower case of the line
RECURSIVE NeededFrom(_, _)
NeededFrom(words, i) ==
    IF i > Len(ENGINEERS) THEN <<>>
    ELSE (IF \E j \in 1..Len(words) : IsSubstring(Lower(ENGINEERS[i]), Lower(words[j]))
          THEN <<ENGINEERS[i]>> ELSE <<>>) \o NeededFrom(words, i + 1)

DeclaredNeeded(text) ==
    IF \E i \in 1..Len(text) : text[i].k = "EN"
    THEN NeededFrom(text[Min({ i \in 1..Len(text) : text[i].k = "EN" })].t, 1)
    ELSE <<>>

RECURSIVE ParseFrom(_, _, _)
\* lines 185-211: the checklist headings from token i on
ParseFrom(text, i, data) ==
    IF i > Len(text) THEN data
    ELSE IF text[i].k # "CL" THEN ParseFrom(text, i + 1, data)
    ELSE LET name == NormalizeName(text[i].t[1])
             tasks == TasksFrom(text, i + 1)
         IN  ParseFrom(text, i + 1,
                 [engineers_needed |->
                      IF name \in Range(ENGINEERS)
                      THEN AppendNew(data.engineers_needed, name)
                      ELSE data.engineers_needed,
                  engineer_checklists |->
                      DictSet(data.engineer_checklists, name, tasks)])

\* lines 152-213 (the plan file exists)
parse_plan_file(text) ==
    ParseFrom(text, 1, [engineers_needed |-> DeclaredNeeded(text),
                        engineer_checklists |-> <<>>])

EmptyPlan == [engineers_needed |-> <<>>, engineer_checklists |-> <<>>]

RECURSIVE CountTasks(_, _, _)
\* tasks of the checklists from entry i on; done = TRUE counts completed ones
CountTasks(d, i, done) ==
    IF i > Len(d) THEN 0
    ELSE Cardinality({ j \in 1..Len(d[i].tasks) : done => d[i].tasks[j].completed })
             + CountTasks(d, i + 1, done)

\* The tasks that are not completed counted as the completed ones.
get_plan_progress_Inverted(plan) ==
    LET total == CountTasks(plan.engineer_checklists, 1, FALSE)
        completed == total - CountTasks(plan.engineer_checklists, 1, TRUE)
    IN  [completed |-> completed, total |-> total,
         percentage |-> IF total > 0 THEN (completed * 100) \div total ELSE 0]

\* The percentage without the factor 100.
get_plan_progress_Fraction(plan) ==
    LET total == CountTasks(plan.engineer_checklists, 1, FALSE)
        completed == CountTasks(plan.engineer_checklists, 1, TRUE)
    IN  [completed |-> completed, total |-> total,
         percentage |-> IF total > 0 THEN completed \div total ELSE 0]

\* lines 215-227.  percentage is completed / total * 100 in floating point;
\* here its integer part, which is >= 100 in the same cases
get_plan_progress(plan) ==
    LET total == CountTasks(plan.engineer_checklists, 1, FALSE)
        completed == CountTasks(plan.engineer_checklists, 1, TRUE)
    IN  [completed |-> completed, total |-> total,
         percentage |-> IF total > 0 THEN (completed * 100) \div total ELSE 0]

\* Every task taken as uncompleted.
Pending_All(tasks) == tasks

\* lines 234-237: the tasks that are not completed, in checklist order
Pending(tasks) == LET NotDone(t) == ~t.completed IN SelectSeq(tasks, NotDone)

RECURSIVE UncompletedFrom(_, _)
UncompletedFrom(d, i) ==
    IF i > Len(d) THEN <<>>
    ELSE (IF Pending(d[i].tasks) # <<>>
          THEN <<[name |-> d[i].name, tasks |-> Pending(d[i].tasks)]>> ELSE <<>>)
             \o UncompletedFrom(d, i + 1)

RECURSIVE PerTaskFrom(_, _)
PerTaskFrom(d, i) ==
    IF i > Len(d) THEN <<>>
    ELSE [j \in 1..Len(Pending(d[i].tasks)) |->
              [name |-> d[i].name, tasks |-> <<Pending(d[i].tasks)[j]>>]]
             \o PerTaskFrom(d, i + 1)

\* Only the engineers asked for on the "engineers needed" line or of the
\* roster get an entry.
get_uncompleted_tasks_Requested(plan) ==
    LET Asked(e) == \E k \in 1..Len(plan.engineers_needed) :
                        plan.engineers_needed[k] = e.name
    IN  SelectSeq(UncompletedFrom(plan.engineer_checklists, 1), Asked)

\* One entry per uncompleted task instead of one per engineer.
get_uncompleted_tasks_PerTask(plan) == PerTaskFrom(plan.engineer_checklists, 1)

\* lines 229-241: the engineers with an uncompleted task, each with its
\* uncompleted tasks in checklist order
get_uncompleted_tasks(plan) == UncompletedFrom(plan.engineer_checklists, 1)

(***************************************************************************)
(* Session management (lines 141-146, 417-468).                            *)
(***************************************************************************)
LogPath(name, id) == <<name, id>>

\* Path(...).exists() of a session log; files is the set of the paths of
\* the logs in the log directory
LogExists(files, path) == path \in files

RECURSIVE NextFree(_, _, _)
NextFree(name, files, n) ==
    IF LogExists(files, LogPath(name, n)) THEN NextFree(name, files, n + 1) ELSE n

RECURSIVE NextFreeAny(_, _)
NextFreeAny(files, n) ==
    IF \E p \in files : p[2] = n THEN NextFreeAny(files, n + 1) ELSE n

\* Every session numbered 0.
get_next_session_id_Zero(name, files) == 0

\* The numbering over the logs of all the workers together.
get_next_session_id_Global(name, files) == NextFreeAny(files, 0)

\* lines 141-146: count up from 0 while the log of that number exists
get_next_session_id(name, files) == NextFree(name, files, 0)

NoSession == [name |-> "", session_id |-> -1, instruction |-> "", status |-> "none"]

\* The launch without the test of what the terminal call returned.
launch_engineer_in_terminal_NoCheck(name, instruction, files, ok) ==
    [name |-> name,
     session_id |-> get_next_session_id(name, files),
     instruction |-> instruction,
     status |-> "working"]

\* lines 426-468; `ok` is what open_cursor_integrated_terminal returned
launch_engineer_in_terminal(name, instruction, files, ok) ==
    IF ok
    THEN [name |-> name,
          session_id |-> get_next_session_id(name, files),
          instruction |-> instruction,
          status |-> "working"]
    ELSE NoSession

\* The status check without the test that the log exists: a log that is
\* not there is read as an empty one.
SessionStatus_NoExistsTest(s, text, pgrep) ==
    IF LogExists(logs, LogPath(s.name, s.session_id))
    THEN check_engineer_session_status("ok", text, "none", pgrep)
    ELSE check_engineer_session_status("ok", <<>>, "none", pgrep)

\* The status check that takes a log that is not there for a failed session.
SessionStatus_MissingIsError(s, text, pgrep) ==
    IF LogExists(logs, LogPath(s.name, s.session_id))
    THEN check_engineer_session_status("ok", text, "none", pgrep)
    ELSE "error"

\* check_engineer_session_status on a session of the loop: pid is None
\* (line 464); the file at session.log_file holds `text` when it exists, and
\* `pgrep` tells whether pgrep printed a process for the engineer
SessionStatus(s, text, pgrep) ==
    IF LogExists(logs, LogPath(s.name, s.session_id))
    THEN check_engineer_session_status("ok", text, "none", pgrep)
    ELSE check_engineer_session_status("missing", <<>>, "none", pgrep)

(***************************************************************************)
(* coordinator_loop (lines 757-924).                                       *)
(***************************************************************************)
\* line 797
working_engineers ==
    { active_sessions[i].name :
        i \in { j \in 1..Len(active_sessions) : active_sessions[j].status = "working" } }

Finish(how, report) ==
    /\ pc' = "done"
    /\ outcome' = how
    /\ final_report' = report

\* The start of a wave on the plan_data the wave before left behind.
ParseWave_Stale ==
    /\ pc = "wave"
    /\ wave < MaxWaves
    /\ wave' = wave + 1
    /\ IF doc = Missing
       THEN /\ Finish("Raised", FALSE)
            /\ UNCHANGED <<plan_data, todo, new_sessions, launches>>
       ELSE /\ plan_data' = (IF wave = 0 THEN parse_plan_file(doc) ELSE plan_data)
            /\ IF get_plan_progress(plan_data').percentage >= 100
               THEN /\ Finish("AllComplete", TRUE)
                    /\ UNCHANGED <<todo, new_sessions, launches>>
               ELSE IF get_uncompleted_tasks(plan_data') = <<>>
               THEN /\ Finish("NoTasks", FALSE)
                    /\ UNCHANGED <<todo, new_sessions, launches>>
               ELSE /\ pc' = "launch"
                    /\ todo' = get_uncompleted_tasks(plan_data')
                    /\ new_sessions' = <<>>
                    /\ launches' = <<>>
                    /\ UNCHANGED <<outcome, final_report>>
    /\ UNCHANGED <<mode, skip_prompts, active_sessions, total_sessions, all_sessions, typed>>
    /\ UNCHANGED <<envVars, mainVars, patchVars, classifyVars>>

\* lines 774-799: next wave, parse, progress, the two exits, the launch list;
\* parse_plan_file raises FileNotFoundError when the plan is gone (line 155)
\* and nothing in the loop catches it
ParseWave ==
    /\ pc = "wave"
    /\ wave < MaxWaves
    /\ wave' = wave + 1
    /\ IF doc = Missing
       THEN /\ Finish("Raised", FALSE)
            /\ UNCHANGED <<plan_data, todo, new_sessions, launches>>
       ELSE /\ plan_data' = parse_plan_file(doc)
            /\ IF get_plan_progress(plan_data').percentage >= 100
               THEN /\ Finish("AllComplete", TRUE)
                    /\ UNCHANGED <<todo, new_sessions, launches>>
               ELSE IF get_uncompleted_tasks(plan_data') = <<>>
               THEN /\ Finish("NoTasks", FALSE)
                    /\ UNCHANGED <<todo, new_sessions, launches>>
               ELSE /\ pc' = "launch"
                    /\ todo' = get_uncompleted_tasks(plan_data')
                    /\ new_sessions' = <<>>
                    /\ launches' = <<>>
                    /\ UNCHANGED <<outcome, final_report>>
    /\ UNCHANGED <<mode, skip_prompts, active_sessions, total_sessions, all_sessions, typed>>
    /\ UNCHANGED <<envVars, mainVars, patchVars, classifyVars>>

\* lines 800-823: one pass of the launch loop
LaunchOne ==
    /\ pc = "launch"
    /\ todo # <<>>
    /\ LET item == Head(todo) IN
         IF item.name \in working_engineers \/ item.tasks = <<>>
         THEN UNCHANGED <<new_sessions, total_sessions, all_sessions, launches>>
         ELSE \E ok \in BOOLEAN :
                LET session == launch_engineer_in_terminal(
                                   item.name, item.tasks[1].description, logs, ok)
                IN  /\ launches' = Append(launches,
                           [name |-> item.name,
                            instruction |-> item.tasks[1].description, ok |-> ok])
                    /\ IF session # NoSession
                       THEN /\ new_sessions' = Append(new_sessions, session)
                            /\ total_sessions' = total_sessions + 1
                            /\ all_sessions' = all_sessions \cup
                                   {LogPath(session.name, session.session_id)}
                       ELSE UNCHANGED <<new_sessions, total_sessions, all_sessions>>
    /\ todo' = Tail(todo)
    /\ UNCHANGED <<pc, wave, mode, skip_prompts, plan_data, active_sessions,
                   outcome, final_report, typed>>
    /\ UNCHANGED <<envVars, mainVars, patchVars, classifyVars>>

\* The end of the launch loop without the exit of lines 827-829.
LaunchDone_NoExit ==
    /\ pc = "launch"
    /\ todo = <<>>
    /\ active_sessions' = active_sessions \o new_sessions
    /\ pc' = "monitor"
    /\ UNCHANGED <<wave, mode, skip_prompts, plan_data, todo, new_sessions,
                   total_sessions, all_sessions, typed, launches, outcome, final_report>>
    /\ UNCHANGED <<envVars, mainVars, patchVars, classifyVars>>

\* lines 825-829: the launch loop is over
LaunchDone ==
    /\ pc = "launch"
    /\ todo = <<>>
    /\ active_sessions' = active_sessions \o new_sessions
    /\ IF new_sessions = <<>> /\ active_sessions' = <<>>
       THEN Finish("NoProgressPossible", FALSE)
       ELSE pc' = "monitor" /\ UNCHANGED <<outcome, final_report>>
    /\ UNCHANGED <<wave, mode, skip_prompts, plan_data, todo, new_sessions,
                   total_sessions, all_sessions, typed, launches>>
    /\ UNCHANGED <<envVars, mainVars, patchVars, classifyVars>>

\* what one status check finds: the text of the session's log and whether
\* an agent process of the engineer runs
Ltext == <<[kind |-> "text", n |-> 1]>>
Ldone == <<[kind |-> "text", n |-> 1], [kind |-> "done", n |-> 1]>>

Lblocked == <<[kind |-> "text", n |-> 1], [kind |-> "blocked", n |-> 1]>>

WorkerLogs == {Ltext, Ldone, Lblocked}

Findings == [text : WorkerLogs, pgrep : BOOLEAN]

\* lines 848-850: session.status = check_engineer_session_status(session)
Classified(sessions, found) ==
    [i \in 1..Len(sessions) |->
        [sessions[i] EXCEPT
            !.status = SessionStatus(sessions[i], found[i].text, found[i].pgrep)]]

StillWorking(s) == s.status = "working"

\* The tick with the monitor loop left after every check.
MonitorTick_OneCheck ==
    /\ pc = "monitor"
    /\ \E found \in [1..Len(active_sessions) -> Findings] :
          active_sessions' = SelectSeq(Classified(active_sessions, found), StillWorking)
    /\ pc' = "reparse"
    /\ UNCHANGED <<wave, mode, skip_prompts, plan_data, todo, new_sessions,
                   total_sessions, all_sessions, outcome, final_report, typed, launches>>
    /\ UNCHANGED <<envVars, mainVars, patchVars, classifyVars>>

\* The tick with the monitor loop left as soon as one session has stopped.
MonitorTick_ExitOnAny ==
    /\ pc = "monitor"
    /\ \E found \in [1..Len(active_sessions) -> Findings] :
          active_sessions' = SelectSeq(Classified(active_sessions, found), StillWorking)
    /\ pc' = IF Len(active_sessions') < Len(active_sessions) THEN "reparse" ELSE "monitor"
    /\ UNCHANGED <<wave, mode, skip_prompts, plan_data, todo, new_sessions,
                   total_sessions, all_sessions, outcome, final_report, typed, launches>>
    /\ UNCHANGED <<envVars, mainVars, patchVars, classifyVars>>

\* lines 835-870: one tick of the monitor loop, after the sleep; lines
\* 872-901 (the optional compilation check) change nothing of this model
MonitorTick ==
    /\ pc = "monitor"
    /\ \E found \in [1..Len(active_sessions) -> Findings] :
          active_sessions' = SelectSeq(Classified(active_sessions, found), StillWorking)
    /\ pc' = IF active_sessions' = <<>> THEN "reparse" ELSE "monitor"
    /\ UNCHANGED <<wave, mode, skip_prompts, plan_data, todo, new_sessions,
                   total_sessions, all_sessions, outcome, final_report, typed, launches>>
    /\ UNCHANGED <<envVars, mainVars, patchVars, classifyVars>>

\* The test of line 918 without the mode.
AsksOperator_AnyMode == ~skip_prompts

\* line 918
AsksOperator == mode = "interactive" /\ ~skip_prompts

\* The step that parses again and saves the plan with its boxes in lower case.
LowerBoxes(text) ==
    [i \in 1..Len(text) |->
        IF text[i].k = "T" /\ text[i].t[2] = "X"
        THEN TaskLine(text[i].t[1], "x", text[i].t[3])
        ELSE text[i]]

Reparse_Saves ==
    /\ pc = "reparse"
    /\ IF doc = Missing
       THEN /\ Finish("Raised", FALSE)
            /\ UNCHANGED <<plan_data, doc>>
       ELSE /\ plan_data' = parse_plan_file(doc)
            /\ doc' = LowerBoxes(doc)
            /\ IF get_plan_progress(plan_data').percentage >= 100
               THEN Finish("AllComplete", TRUE)
               ELSE /\ pc' = IF mode = "interactive" /\ ~skip_prompts THEN "ask" ELSE "wave"
                    /\ UNCHANGED <<outcome, final_report>>
    /\ UNCHANGED <<wave, mode, skip_prompts, todo, new_sessions, active_sessions,
                   total_sessions, all_sessions, typed, launches>>
    /\ UNCHANGED <<doc0, lock, ppc, marker, analysis, content, new_content, ret,
                   wrote, raised>>
    /\ UNCHANGED <<envVars, mainVars, classifyVars>>

\* lines 903-924: parse again, report, the completion exit, the mode
Reparse ==
    /\ pc = "reparse"
    /\ IF doc = Missing
       THEN /\ Finish("Raised", FALSE)
            /\ UNCHANGED plan_data
       ELSE /\ plan_data' = parse_plan_file(doc)
            /\ IF get_plan_progress(plan_data').percentage >= 100
               THEN Finish("AllComplete", TRUE)
               ELSE /\ pc' = IF AsksOperator THEN "ask" ELSE "wave"
                    /\ UNCHANGED <<outcome, final_report>>
    /\ UNCHANGED <<wave, mode, skip_prompts, todo, new_sessions, active_sessions,
                   total_sessions, all_sessions, typed, launches>>
    /\ UNCHANGED <<envVars, mainVars, patchVars, classifyVars>>

\* the operator answers the prompt of ask_continue
TypedLines == {"Yes ", "stop", "later"}

\* input(...).strip().lower()
StripLower(line) == IF line = "Yes " THEN "yes" ELSE line

OperatorTypes ==
    /\ pc = "ask"
    /\ typed = ""
    /\ typed' \in TypedLines
    /\ UNCHANGED <<pc, wave, mode, skip_prompts, plan_data, todo, new_sessions,
                   active_sessions, total_sessions, all_sessions, outcome, final_report, launches>>
    /\ UNCHANGED <<envVars, mainVars, patchVars, classifyVars>>

\* Every line that is not a refusal taken as consent.
ask_continue_DefaultYes(line) ==
    IF StripLower(line) \in {"no", "n", "stop", "s"} THEN "stop" ELSE "continue"

\* lines 678-687 on one typed line: "continue" (return True), "stop"
\* (return False) or "again" (the prompt is repeated)
ask_continue(line) ==
    IF StripLower(line) \in {"yes", "y", "continue", "c"} THEN "continue"
    ELSE IF StripLower(line) \in {"no", "n", "stop", "s"} THEN "stop"
    ELSE "again"

\* lines 919-921, with the line read by input()
AskContinue ==
    /\ pc = "ask"
    /\ typed # ""
    /\ typed' = ""
    /\ CASE ask_continue(typed) = "continue" ->
              pc' = "wave" /\ UNCHANGED <<outcome, final_report>>
         [] ask_continue(typed) = "stop" -> Finish("UserStopped", FALSE)
         [] OTHER -> UNCHANGED <<pc, outcome, final_report>>
    /\ UNCHANGED <<wave, mode, skip_prompts, plan_data, todo, new_sessions,
                   active_sessions, total_sessions, all_sessions, launches>>
    /\ UNCHANGED <<envVars, mainVars, patchVars, classifyVars>>

(***************************************************************************)
(* The workers.  The script run in a session's terminal creates the        *)
(* session's log, and the engineer of a session launched in this wave may  *)
(* check off a list item of its own checklist in the plan.                 *)
(***************************************************************************)
\* the sessions launched in this wave or still active
LaunchedNow == Range(active_sessions) \cup Range(new_sessions)

\* the log files a behaviour can name: every engineer of a checklist, and
\* one session number per wave beyond a log left by an earlier run
LogPaths == {"Alex", "Zed"} \X (0..MaxWaves)

WorkerWrite ==
    /\ pc \in {"launch", "monitor"}
    /\ \E s \in LaunchedNow :
          /\ ~LogExists(logs, LogPath(s.name, s.session_id))
          /\ logs' = logs \cup {LogPath(s.name, s.session_id)}
    /\ UNCHANGED <<loopVars, mainVars, patchVars, classifyVars>>

\* the engineer whose checklist holds token i ("" before the first heading)
OwnerOf(text, i) ==
    LET heads == { j \in 1..i : text[j].k = "CL" }
    IN  IF heads = {} THEN ""
        ELSE NormalizeName(text[CHOOSE j \in heads : \A h \in heads : h <= j].t[1])

\* the letter an engineer puts into the box of an item
WorkerBox(bullet) == IF bullet = "-" THEN "X" ELSE "x"

WorkerCheck ==
    /\ pc # "done"
    /\ \E i \in 1..Len(doc) :
          /\ doc[i].k = "T"
          /\ doc[i].t[2] = " "
          /\ OwnerOf(doc, i) \in { s.name : s \in LaunchedNow }
          /\ doc' = [doc EXCEPT ![i].t = <<doc[i].t[1], WorkerBox(doc[i].t[1]), doc[i].t[3]>>]
    /\ UNCHANGED <<doc0, lock, ppc, marker, analysis, content, new_content, ret,
                   wrote, raised>>
    /\ UNCHANGED <<coordVars, classifyVars>>

(***************************************************************************)
(* Initial plans of the coordinator: no checklist, one, two of different   *)
(* engineers (one outside the roster), or two headings of one engineer.    *)
(* The first checklist has up to MaxTasks items and a second one at most   *)
(* one item, checked or not.                                               *)
(***************************************************************************)
ChecklistHeadings == { <<>>, <<"Alex">>, <<"Alex", "Zed">>, <<"Alex", "ALEX">> }

\* the text after the checkbox of item j of checklist i, with the blanks
\* around it
DescTable == << <<"a1", " a2 ", "a3  ", "a4">>, <<"  b1">> >>

\* the list marker of item j of checklist i
BulletTable == << <<"-", "*", "3.", "-">>, <<"1.">> >>

\* the letter in the box of an item that is checked from the start
PlanBox(bullet) == IF bullet = "-" THEN "x" ELSE "X"

Boxes(n) == UNION { [1..k -> {" ", "x"}] : k \in 0..n }

BoxSeqs(heads) ==
    { b \in [1..Len(heads) -> Boxes(MaxTasks)] : \A i \in 2..Len(heads) : Len(b[i]) <= 1 }

RECURSIVE BuildPlan(_, _, _)
BuildPlan(heads, boxes, i) ==
    IF i > Len(heads) THEN <<>>
    ELSE <<Checklist(heads[i])>>
           \o [j \in 1..Len(boxes[i]) |->
                  TaskLine(BulletTable[i][j],
                           IF boxes[i][j] = " " THEN " " ELSE PlanBox(BulletTable[i][j]),
                           DescTable[i][j])]
           \o BuildPlan(heads, boxes, i + 1)

\* the words of an "engineers needed" line
DeclaredWords == { <<"Zed", "alex">>, <<"Alexis">> }

\* the plans without an "engineers needed" line, and the plans of Alex and
\* Zed that start with one
PlanDocs ==
    UNION { { BuildPlan(h, b, 1) : b \in BoxSeqs(h) } : h \in ChecklistHeadings }
    \cup UNION { { <<Needed(w)>> \o BuildPlan(<<"Alex", "Zed">>, b, 1) :
                     b \in { c \in BoxSeqs(<<"Alex", "Zed">>) :
                                Len(c[1]) = 1 /\ Len(c[2]) = 1 } } : w \in DeclaredWords }

\* the number of checklist headings of the text, and of the list items
\* after the last of them
HeadingCount(text) == Cardinality({ i \in 1..Len(text) : text[i].k = "CL" })

LastItems(text) ==
    Cardinality({ i \in 1..Len(text) :
                    text[i].k = "T" /\ \A j \in i..Len(text) : text[j].k # "CL" })

\* Somebody edits the plan between two waves (after the reparse of one and
\* before the parse of the next): an item that was checked from the start
\* is unchecked, or one unchecked item is added at the end of the last
\* checklist.
ExternalEdit ==
    /\ pc = "wave"
    /\ wave >= 1
    /\ doc # Missing
    /\ \/ \E i \in 1..Len(doc) :
             /\ doc[i].k = "T"
             /\ doc[i].t[2] # " "
             /\ i <= Len(doc0)
             /\ doc0[i].t[2] # " "
             /\ doc' = [doc EXCEPT ![i].t = <<doc[i].t[1], " ", doc[i].t[3]>>]
       \/ /\ Len(doc) = Len(doc0)
          /\ HeadingCount(doc) \in 1..2
          /\ LastItems(doc) < (IF HeadingCount(doc) = 1 THEN MaxTasks ELSE 1)
          /\ doc' = Append(doc,
                 TaskLine(BulletTable[HeadingCount(doc)][LastItems(doc) + 1], " ",
                          DescTable[HeadingCount(doc)][LastItems(doc) + 1]))
    /\ UNCHANGED <<doc0, lock, ppc, marker, analysis, content, new_content, ret,
                   wrote, raised>>
    /\ UNCHANGED <<coordVars, classifyVars>>

\* the log directory: empty, or with one log left by an earlier run
InitLogs == { {}, {LogPath("Alex", 0), LogPath("Alex", 2), LogPath("Zed", 1)} }

CoordStart ==
    /\ IdleClassify
    /\ doc0 = doc
    /\ lock = NoProc
    /\ ppc = [p \in Procs |-> "done"]
    /\ marker = [p \in Procs |-> <<>>]
    /\ analysis = [p \in Procs |-> [id |-> p, esc |-> "none"]]
    /\ content = [p \in Procs |-> <<>>]
    /\ new_content = [p \in Procs |-> <<>>]
    /\ ret = [p \in Procs |-> "none"]
    /\ wrote = [p \in Procs |-> FALSE]
    /\ raised = [p \in Procs |-> "none"]
    /\ wave = 0
    /\ mode \in {"auto", "interactive"}
    /\ skip_prompts \in BOOLEAN
    /\ plan_data = EmptyPlan
    /\ todo = <<>>
    /\ new_sessions = <<>>
    /\ active_sessions = <<>>
    /\ total_sessions = 0
    /\ all_sessions = {}
    /\ outcome = "none"
    /\ final_report = FALSE
    /\ typed = ""
    /\ logs \in InitLogs
    /\ launches = <<>>
    /\ exit_code = NoExit

\* coordinator_loop called on a plan that exists
Init ==
    /\ doc \in PlanDocs
    /\ pc = "wave"
    /\ CoordStart

Next ==
    \/ ParseWave
    \/ LaunchOne
    \/ LaunchDone
    \/ MonitorTick
    \/ Reparse
    \/ OperatorTypes
    \/ AskContinue
    \/ WorkerWrite
    \/ WorkerCheck

Spec == Init /\ [][Next]_vars

(***************************************************************************)
(* The loop in autonomous mode, with the scheduling the code gives it: the *)
(* loop is one thread that never blocks but in time.sleep, so each of its  *)
(* steps is taken once it is due.  Nothing is assumed of the engineers.    *)
(***************************************************************************)
InitLive ==
    /\ Init
    /\ mode = "auto"
    /\ ~skip_prompts

NextLive ==
    \/ ParseWave
    \/ LaunchOne
    \/ LaunchDone
    \/ MonitorTick
    \/ Reparse
    \/ WorkerWrite
    \/ WorkerCheck

SpecLive ==
    /\ InitLive
    /\ [][NextLive]_vars
    /\ WF_vars(ParseWave)
    /\ WF_vars(LaunchOne)
    /\ WF_vars(LaunchDone)
    /\ WF_vars(MonitorTick)
    /\ WF_vars(Reparse)

(***************************************************************************)
(* The loop in autonomous mode on a plan that is edited between the waves. *)
(***************************************************************************)
InitEdit ==
    /\ InitLive
    /\ logs = {}

NextEdit ==
    \/ ParseWave
    \/ LaunchOne
    \/ LaunchDone
    \/ MonitorTick
    \/ Reparse
    \/ WorkerWrite
    \/ WorkerCheck
    \/ ExternalEdit

SpecEdit == InitEdit /\ [][NextEdit]_vars

(***************************************************************************)
(* The loop in autonomous mode while one update_plan_section invocation    *)
(* runs on the same plan file: the plan holds an analysis section in front *)
(* of the checklist of Alex.  parse_plan_file reads the file without the   *)
(* lock (line 157).                                                        *)
(***************************************************************************)
SharedDocs ==
    { <<Heading(<<"a">>), PS, PC, END>> \o BuildPlan(<<"Alex">>, b, 1) :
        b \in BoxSeqs(<<"Alex">>) }

InitShared ==
    /\ IdleClassify
    /\ doc \in SharedDocs
    /\ doc0 = doc
    /\ lock = NoProc
    /\ ppc = [p \in Procs |-> IF p = 1 THEN "start" ELSE "done"]
    /\ marker = [p \in Procs |-> <<>>]
    /\ analysis = [p \in Procs |-> [id |-> p, esc |-> "none"]]
    /\ content = [p \in Procs |-> <<>>]
    /\ new_content = [p \in Procs |-> <<>>]
    /\ ret = [p \in Procs |-> "none"]
    /\ wrote = [p \in Procs |-> FALSE]
    /\ raised = [p \in Procs |-> "none"]
    /\ pc = "wave"
    /\ wave = 0
    /\ mode = "auto"
    /\ skip_prompts = FALSE
    /\ plan_data = EmptyPlan
    /\ todo = <<>>
    /\ new_sessions = <<>>
    /\ active_sessions = <<>>
    /\ total_sessions = 0
    /\ all_sessions = {}
    /\ outcome = "none"
    /\ final_report = FALSE
    /\ typed = ""
    /\ logs = {}
    /\ launches = <<>>
    /\ exit_code = NoExit

NextShared ==
    \/ ParseWave
    \/ LaunchOne
    \/ LaunchDone
    \/ MonitorTick
    \/ Reparse
    \/ WorkerWrite
    \/ WorkerCheck
    \/ NextPatch

SpecShared == InitShared /\ [][NextShared]_vars

(***************************************************************************)
(* main: the checks before the loop, the loop, the exit status.  The plan  *)
(* file can be removed while the program runs and the operator can press   *)
(* Ctrl+C while the loop runs.                                             *)
(***************************************************************************)
Exit(code) ==
    /\ pc' = "exited"
    /\ exit_code' = code

\* lines 996-998
MainExists ==
    /\ pc = "main"
    /\ IF doc = Missing THEN Exit(1) ELSE pc' = "load" /\ UNCHANGED exit_code
    /\ UNCHANGED <<wave, mode, skip_prompts, plan_data, todo, new_sessions,
                   active_sessions, total_sessions, all_sessions, outcome, final_report, typed,
                   launches>>
    /\ UNCHANGED <<envVars, patchVars, classifyVars>>

\* lines 1003-1017: the plan of main is a local of main
MainParse ==
    /\ pc = "load"
    /\ IF doc = Missing THEN Exit(1)
       ELSE IF get_plan_progress(parse_plan_file(doc)).percentage >= 100 THEN Exit(0)
       ELSE pc' = "confirm" /\ UNCHANGED exit_code
    /\ UNCHANGED <<wave, mode, skip_prompts, plan_data, todo, new_sessions,
                   active_sessions, total_sessions, all_sessions, outcome, final_report, typed,
                   launches>>
    /\ UNCHANGED <<envVars, patchVars, classifyVars>>

\* the lines the operator types at "Start execution? [Y/n]"
ConfirmLines == {"", "N ", "no"}

\* input(...).strip().lower() on them
ConfirmAnswer(line) == IF line = "N " THEN "n" ELSE line

\* lines 1032-1038
MainConfirm ==
    /\ pc = "confirm"
    /\ IF skip_prompts
       THEN pc' = "wave" /\ UNCHANGED exit_code
       ELSE \E line \in ConfirmLines :
               IF ConfirmAnswer(line) \in {"n", "no"}
               THEN Exit(0)
               ELSE pc' = "wave" /\ UNCHANGED exit_code
    /\ UNCHANGED <<wave, mode, skip_prompts, plan_data, todo, new_sessions,
                   active_sessions, total_sessions, all_sessions, outcome, final_report, typed,
                   launches>>
    /\ UNCHANGED <<envVars, patchVars, classifyVars>>

\* The exit status with Ctrl+C handled by the clause for the other errors.
LoopExitCode_OneHandler(how) ==
    IF how \in {"Interrupted", "Raised"} THEN 1 ELSE 0

\* lines 1041-1060: 130 for KeyboardInterrupt, 1 for another exception, and
\* the end of main (status 0) when the loop returned
LoopExitCode(how) ==
    CASE how = "Interrupted" -> 130
      [] how = "Raised" -> 1
      [] OTHER -> 0

MainExit ==
    /\ pc = "done"
    /\ Exit(LoopExitCode(outcome))
    /\ UNCHANGED <<wave, mode, skip_prompts, plan_data, todo, new_sessions,
                   active_sessions, total_sessions, all_sessions, outcome, final_report, typed,
                   launches>>
    /\ UNCHANGED <<envVars, patchVars, classifyVars>>

LoopPositions == {"wave", "launch", "monitor", "reparse", "ask"}

\* Ctrl+C while coordinator_loop runs: KeyboardInterrupt leaves the loop
Interrupt ==
    /\ pc \in LoopPositions
    /\ Finish("Interrupted", FALSE)
    /\ UNCHANGED <<wave, mode, skip_prompts, plan_data, todo, new_sessions,
                   active_sessions, total_sessions, all_sessions, typed, launches>>
    /\ UNCHANGED <<envVars, mainVars, patchVars, classifyVars>>

\* somebody removes the plan file
PlanRemoved ==
    /\ pc \notin {"done", "exited"}
    /\ doc # Missing
    /\ doc' = Missing
    /\ UNCHANGED <<doc0, lock, ppc, marker, analysis, content, new_content, ret,
                   wrote, raised>>
    /\ UNCHANGED <<coordVars, classifyVars>>

InitMain ==
    /\ doc \in PlanDocs \cup {Missing}
    /\ pc = "main"
    /\ CoordStart

NextMain ==
    \/ MainExists
    \/ MainParse
    \/ MainConfirm
    \/ MainExit
    \/ Interrupt
    \/ PlanRemoved
    \/ ParseWave
    \/ LaunchOne
    \/ LaunchDone
    \/ MonitorTick
    \/ Reparse
    \/ OperatorTypes
    \/ AskContinue
    \/ WorkerWrite
    \/ WorkerCheck

SpecMain == InitMain /\ [][NextMain]_vars

(***************************************************************************)
(* Properties of coordinator_loop.                                         *)
(***************************************************************************)
HasUnchecked(tasks) == \E j \in 1..Len(tasks) : ~tasks[j].completed

FirstUnchecked(tasks) == tasks[Min({ j \in 1..Len(tasks) : ~tasks[j].completed })]

\* the checklists of the plan as parsed at the start of the wave
WaveChecklists == plan_data.engineer_checklists

\* the engineers of the wave's plan with a task to do
PendingWorkers ==
    { i \in 1..Len(WaveChecklists) : HasUnchecked(WaveChecklists[i].tasks) }

CallsFor(name) == { k \in 1..Len(launches) : launches[k].name = name }

\* the launch loop of the wave is over and the plan has not been read again
LaunchOver ==
    \/ pc = "launch" /\ todo = <<>>
    \/ pc = "monitor"
    \/ pc = "done" /\ outcome = "NoProgressPossible"

(***************************************************************************)
(* C1: in every state of every wave, no two sessions of the active set     *)
(* that are both Working carry the same worker name.                       *)
(***************************************************************************)
C1_OneWorkingPerWorker ==
    \A i, j \in 1..Len(active_sessions) :
        (i # j /\ active_sessions[i].status = "working"
               /\ active_sessions[j].status = "working")
            => active_sessions[i].name # active_sessions[j].name

\* the second wave monitors two working sessions
C1_Witness ==
    /\ pc = "monitor"
    /\ wave = 2
    /\ Len(active_sessions) = 2
    /\ \A i \in 1..2 : active_sessions[i].status = "working"

(***************************************************************************)
(* C5: when the plan the loop starts with is at 100% (it has a task and    *)
(* every task of every checklist is checked), the loop ends in its first   *)
(* wave with AllComplete, and no session was launched.                     *)
(***************************************************************************)
C5_AtHundred(text) ==
    LET cl == parse_plan_file(text).engineer_checklists
    IN  /\ \E i \in 1..Len(cl) : cl[i].tasks # <<>>
        /\ \A i \in 1..Len(cl) : ~HasUnchecked(cl[i].tasks)

C5_AlreadyComplete ==
    (wave >= 1 /\ C5_AtHundred(doc0)) =>
        /\ pc = "done"
        /\ outcome = "AllComplete"
        /\ final_report
        /\ wave = 1
        /\ total_sessions = 0
        /\ launches = <<>>
        /\ new_sessions = <<>>
        /\ active_sessions = <<>>

C5_Witness ==
    /\ C5_AtHundred(doc0)
    /\ pc = "done"
    /\ outcome = "AllComplete"
    /\ wave = 1
    /\ total_sessions = 0

(***************************************************************************)
(* C6: when the launch loop of a wave is over, launch_engineer_in_terminal *)
(* has been called exactly once for every worker with an unchecked task in *)
(* the plan parsed at the start of the wave, with the description of the   *)
(* worker's first unchecked task as the instruction, and not at all for a  *)
(* worker without one; the sessions of the wave are the calls that         *)
(* succeeded, each with its call's instruction.  For the plan of one       *)
(* worker with two unchecked tasks the first wave makes one call, with the *)
(* first task's description.                                               *)
(***************************************************************************)
ScenarioA == BuildPlan(<<"Alex">>, << <<" ", " ">> >>, 1)

C6_OneLaunchPerPendingWorker ==
    LaunchOver =>
        /\ \A i \in 1..Len(WaveChecklists) :
              IF i \in PendingWorkers
              THEN \E k \in 1..Len(launches) :
                     /\ CallsFor(WaveChecklists[i].name) = {k}
                     /\ launches[k].instruction =
                            FirstUnchecked(WaveChecklists[i].tasks).description
              ELSE CallsFor(WaveChecklists[i].name) = {}
        /\ \A k \in 1..Len(launches) :
              \E i \in 1..Len(WaveChecklists) : WaveChecklists[i].name = launches[k].name
        /\ Len(new_sessions) = Cardinality({ k \in 1..Len(launches) : launches[k].ok })
        /\ \A n \in 1..Len(new_sessions) :
              \E k \in 1..Len(launches) :
                 /\ launches[k].ok
                 /\ launches[k].name = new_sessions[n].name
                 /\ launches[k].instruction = new_sessions[n].instruction
        /\ (wave = 1 /\ doc0 = ScenarioA) =>
              /\ Len(launches) = 1
              /\ launches[1].name = "Alex"
              /\ launches[1].instruction = "a1"

\* scenario A: the first wave monitors the one session, which carries "a1"
C6_Witness ==
    /\ doc0 = ScenarioA
    /\ wave = 1
    /\ pc = "monitor"
    /\ Len(new_sessions) = 1
    /\ new_sessions[1].name = "Alex"
    /\ new_sessions[1].instruction = "a1"

(***************************************************************************)
(* C7: the launch loop ends with no new session and an empty active set    *)
(* exactly when the loop stops with NoProgressPossible; it stops there at  *)
(* once (the monitor loop is not entered), prints no final report, counts  *)
(* no session, and the plan of the wave still has an unchecked task.       *)
(***************************************************************************)
C7_NoProgressStops ==
    [][ /\ (pc = "launch" /\ todo = <<>> /\ new_sessions = <<>> /\ active_sessions = <<>>)
            => /\ pc' = "done"
               /\ outcome' = "NoProgressPossible"
               /\ ~final_report'
               /\ total_sessions' = total_sessions
               /\ active_sessions' = <<>>
               /\ \E i \in 1..Len(plan_data'.engineer_checklists) :
                      HasUnchecked(plan_data'.engineer_checklists[i].tasks)
        /\ (outcome' = "NoProgressPossible" /\ outcome # "NoProgressPossible")
            => (pc = "launch" /\ todo = <<>> /\ new_sessions = <<>>
                              /\ active_sessions = <<>>)
        /\ (outcome = "NoProgressPossible") => (pc' = "done" /\ outcome' = outcome)
      ]_vars

\* every launch of the wave failed
C7_Witness ==
    /\ pc = "done"
    /\ outcome = "NoProgressPossible"
    /\ Len(launches) = 2
    /\ \A k \in 1..Len(launches) : ~launches[k].ok

(***************************************************************************)
(* C8 as stated: in interactive mode the loop goes on to a next wave only  *)
(* from the prompt, on the operator's consent.                             *)
(***************************************************************************)
C8_InteractiveAlwaysAsks ==
    [][ (mode = "interactive" /\ pc # "wave" /\ pc' = "wave")
            => (pc = "ask" /\ typed = "Yes ") ]_vars

(***************************************************************************)
(* C8 amended: in interactive mode with the prompts not skipped, the loop  *)
(* goes on to a next wave only from the prompt, on the operator's consent; *)
(* when the operator refuses, the loop stops with UserStopped, and after   *)
(* that it launches nothing.                                               *)
(***************************************************************************)
C8_AsksUnlessSkipped ==
    [][ /\ (mode = "interactive" /\ ~skip_prompts /\ pc # "wave" /\ pc' = "wave")
            => (pc = "ask" /\ typed = "Yes ")
        /\ (pc = "ask" /\ typed = "stop" /\ typed' # typed)
            => /\ pc' = "done"
               /\ outcome' = "UserStopped"
               /\ ~final_report'
        /\ (outcome = "UserStopped")
            => /\ pc' = "done"
               /\ outcome' = outcome
               /\ total_sessions' = total_sessions
               /\ launches' = launches
               /\ new_sessions' = new_sessions
               /\ active_sessions' = active_sessions
      ]_vars

\* the operator consented after the first wave and refused after the second
C8_Witness ==
    /\ mode = "interactive"
    /\ ~skip_prompts
    /\ outcome = "UserStopped"
    /\ pc = "done"
    /\ wave = 2

(***************************************************************************)
(* C9: a launch that fails returns no session; the step of the launch loop *)
(* that made it adds nothing to the wave's sessions, the active set or the *)
(* session total and goes on to the next worker, so that at the end of the *)
(* launch loop every worker with an unchecked task has been tried.         *)
(***************************************************************************)
C9_FailedLaunchSkipped ==
    [][ /\ \A name \in {"Alex", "Zed"}, d \in {"a1", "b1"} :
              launch_engineer_in_terminal(name, d, logs, FALSE) = NoSession
        /\ (Len(launches') = Len(launches) + 1 /\ ~launches'[Len(launches')].ok)
            => /\ new_sessions' = new_sessions
               /\ active_sessions' = active_sessions
               /\ total_sessions' = total_sessions
               /\ pc = "launch" /\ pc' = "launch"
               /\ outcome' = "none"
               /\ todo' = Tail(todo)
        /\ (pc = "launch" /\ pc' # "launch")
            => /\ Len(launches) = Cardinality(PendingWorkers)
               /\ \A n \in 1..Len(active_sessions') :
                     \E k \in 1..Len(launches) :
                        launches[k].ok /\ launches[k].name = active_sessions'[n].name
      ]_vars

\* the first launch of the wave failed and the second one gave a session
C9_Witness ==
    /\ pc = "monitor"
    /\ Len(launches) = 2
    /\ ~launches[1].ok
    /\ launches[2].ok
    /\ Len(new_sessions) = 1
    /\ new_sessions[1].name = launches[2].name

(***************************************************************************)
(* C15: for every plan the loop has parsed, get_plan_progress gives        *)
(* completed <= total, a percentage between 0 and 100 that is the integer  *)
(* part of completed / total * 100, 0 when there is no task, and at least  *)
(* 100 exactly when there is a task and every task of every checklist is   *)
(* completed.                                                              *)
(***************************************************************************)
TaskSlots(plan) ==
    { <<i, j>> \in (1..Len(plan.engineer_checklists)) \X (1..(MaxTasks + 1)) :
        j <= Len(plan.engineer_checklists[i].tasks) }

DoneSlots(plan) ==
    { sl \in TaskSlots(plan) : plan.engineer_checklists[sl[1]].tasks[sl[2]].completed }

C15_ProgressBounds ==
    LET pr == get_plan_progress(plan_data)
        total == Cardinality(TaskSlots(plan_data))
        completed == Cardinality(DoneSlots(plan_data))
    IN  /\ pr.total = total
        /\ pr.completed = completed
        /\ pr.completed <= pr.total
        /\ 0 <= pr.percentage /\ pr.percentage <= 100
        /\ total = 0 => pr.percentage = 0
        /\ total > 0 => /\ pr.percentage * total <= completed * 100
                        /\ completed * 100 < (pr.percentage + 1) * total
        /\ pr.percentage >= 100 <=> (total > 0 /\ completed = total)

\* a parsed plan of two checklists with one of its two tasks completed
C15_Witness ==
    /\ Len(plan_data.engineer_checklists) = 2
    /\ get_plan_progress(plan_data).total = 2
    /\ get_plan_progress(plan_data).percentage = 50

(***************************************************************************)
(* C16: the session id of a launched session is the smallest n >= 0 for    *)
(* which the worker has no log numbered n, and it is the same whatever     *)
(* logs the other workers have.                                            *)
(***************************************************************************)
OtherPaths(name) == { p \in LogPaths \cup logs : p[1] # name }

C16_SmallestFreePerWorker ==
    [][ Len(new_sessions') = Len(new_sessions) + 1
        => LET s == new_sessions'[Len(new_sessions')]
               own == { p \in logs : p[1] = s.name }
           IN  /\ s.session_id \in Nat
               /\ ~LogExists(logs, LogPath(s.name, s.session_id))
               /\ \A m \in 0..(s.session_id - 1) : LogExists(logs, LogPath(s.name, m))
               /\ \A others \in SUBSET OtherPaths(s.name) :
                     get_next_session_id(s.name, own \cup others) = s.session_id
      ]_vars

\* a session numbered 1 while the worker's log 2 and another worker's log 1
\* exist
C16_Witness ==
    /\ \E n \in 1..Len(new_sessions) :
          new_sessions[n].name = "Alex" /\ new_sessions[n].session_id = 1
    /\ LogExists(logs, LogPath("Alex", 2))
    /\ LogExists(logs, LogPath("Zed", 1))
    /\ ~LogExists(logs, LogPath("Alex", 1))

(***************************************************************************)
(* C17: for the plan text as it stands, the checklist parse_plan_file      *)
(* keeps for a heading holds one task per list item of the section, in the *)
(* order of the text, whatever the list marker (-, *, N.); the task is     *)
(* completed exactly when the box holds x or X, and its description is the *)
(* text after the box without the blanks around it.                        *)
(***************************************************************************)
ItemsOf(text, h) ==
    { i \in (h + 1)..Len(text) :
        text[i].k = "T" /\ \A j \in (h + 1)..i : text[j].k # "CL" }

\* the last heading of each engineer: its section is the one the dict keeps
KeptHeadings(text) ==
    { h \in 1..Len(text) :
        /\ text[h].k = "CL"
        /\ \A g \in (h + 1)..Len(text) :
              text[g].k = "CL" => NormalizeName(text[g].t[1]) # NormalizeName(text[h].t[1]) }

TrimmedTexts == {"a1", "a2", "a3", "a4", "b1"}

C17_ChecklistFidelity ==
    LET lists == parse_plan_file(doc).engineer_checklists IN
    \A h \in KeptHeadings(doc) :
        \E c \in 1..Len(lists) :
            /\ lists[c].name = NormalizeName(doc[h].t[1])
            /\ Len(lists[c].tasks) = Cardinality(ItemsOf(doc, h))
            /\ \A i \in ItemsOf(doc, h) :
                  LET n == Cardinality({ j \in ItemsOf(doc, h) : j <= i })
                      task == lists[c].tasks[n]
                  IN  /\ doc[i].t[1] \in {"-", "*", "1.", "3."}
                      /\ task.completed <=> doc[i].t[2] \in {"x", "X"}
                      /\ task.description \in TrimmedTexts
                      /\ task.description = Strip(doc[i].t[3])

\* a plan whose items carry the three markers, with "- [X]", "* [x]" and
\* "1. [X]" among them
C17_Witness ==
    /\ \E i \in 1..Len(doc) : doc[i].k = "T" /\ doc[i].t[1] = "-" /\ doc[i].t[2] = "X"
    /\ \E i \in 1..Len(doc) : doc[i].k = "T" /\ doc[i].t[1] = "*" /\ doc[i].t[2] = "x"
    /\ \E i \in 1..Len(doc) : doc[i].k = "T" /\ doc[i].t[1] = "1." /\ doc[i].t[2] = "X"
    /\ \E c \in 1..Len(plan_data.engineer_checklists) :
          /\ Len(plan_data.engineer_checklists[c].tasks) = 2
          /\ \A n \in 1..2 : plan_data.engineer_checklists[c].tasks[n].completed

(***************************************************************************)
(* C18 as claimed: a checklist whose heading names somebody outside the    *)
(* roster is kept under the name as written, that name is in               *)
(* engineers_needed exactly when the "engineers needed" line names it too, *)
(* and a roster name with a checklist is in engineers_needed exactly once. *)
(***************************************************************************)
InRoster(name) == \E e \in 1..Len(ENGINEERS) : Lower(ENGINEERS[e]) = Lower(name)

HeadingNames(text) == { text[h].t[1] : h \in { i \in 1..Len(text) : text[i].k = "CL" } }

NamedOnLine(text, name) ==
    \E i \in 1..Len(text) :
        /\ text[i].k = "EN"
        /\ \A j \in 1..(i - 1) : text[j].k # "EN"
        /\ \E w \in 1..Len(text[i].t) : Lower(text[i].t[w]) = Lower(name)

Occurrences(seq, x) == Cardinality({ i \in 1..Len(seq) : seq[i] = x })

LiteralKept(text) ==
    \A name \in HeadingNames(text) :
        ~InRoster(name) =>
            \E c \in 1..Len(parse_plan_file(text).engineer_checklists) :
                parse_plan_file(text).engineer_checklists[c].name = name

RosterOnce(text) ==
    \A name \in HeadingNames(text) :
        InRoster(name) =>
            Occurrences(parse_plan_file(text).engineers_needed, NormalizeName(name)) = 1

C18_DeclaredOutsiderRequested ==
    /\ LiteralKept(doc)
    /\ \A name \in HeadingNames(doc) :
          ~InRoster(name) =>
              (name \in Range(parse_plan_file(doc).engineers_needed)
                   <=> NamedOnLine(doc, name))
    /\ RosterOnce(doc)

(***************************************************************************)
(* C18 amended: a checklist whose heading names somebody outside the       *)
(* roster is kept under the name as written, and that name is never in     *)
(* engineers_needed, whether or not the "engineers needed" line names it;  *)
(* a roster name with a checklist is in engineers_needed exactly once.     *)
(***************************************************************************)
C18_OutsiderNeverRequested ==
    /\ LiteralKept(doc)
    /\ \A name \in HeadingNames(doc) :
          ~InRoster(name) => name \notin Range(parse_plan_file(doc).engineers_needed)
    /\ RosterOnce(doc)

\* a plan whose "engineers needed" line names Zed and alex and that holds a
\* checklist of each: the parse requests Alex alone
C18_Witness ==
    /\ NamedOnLine(doc, "Zed")
    /\ NamedOnLine(doc, "Alex")
    /\ HeadingNames(doc) = {"Alex", "Zed"}
    /\ plan_data.engineers_needed = <<"Alex">>
    /\ \E c \in 1..Len(plan_data.engineer_checklists) :
          plan_data.engineer_checklists[c].name = "Zed"

(***************************************************************************)
(* C19: the process exits with 0 when the plan is complete at startup or   *)
(* the loop returned, with 1 when the plan file is missing at startup, or  *)
(* parsing it raised, or the loop raised (the plan gone when a wave parses *)
(* it), and with 130 when Ctrl+C ended the loop; it exits once, with one   *)
(* of the three.                                                           *)
(***************************************************************************)
NormalEnds == {"AllComplete", "NoTasks", "NoProgressPossible", "UserStopped"}

C19_ExitCodes ==
    [][ /\ exit_code' # exit_code =>
            /\ exit_code = NoExit
            /\ exit_code' \in {0, 1, 130}
            /\ (pc \in {"main", "load"} /\ doc = Missing) => exit_code' = 1
            /\ (pc = "load" /\ doc # Missing
                  /\ get_plan_progress(parse_plan_file(doc)).percentage >= 100)
                   => exit_code' = 0
            /\ (pc = "done" /\ outcome \in NormalEnds) => exit_code' = 0
            /\ (pc = "done" /\ outcome = "Raised") => exit_code' = 1
            /\ (pc = "done" /\ outcome = "Interrupted") => exit_code' = 130
            /\ pc = "done" => outcome \in NormalEnds \cup {"Raised", "Interrupted"}
        /\ (pc \in {"wave", "reparse"} /\ doc = Missing /\ pc' # pc)
              => (pc' = "done" /\ outcome' \in {"Raised", "Interrupted"})
        /\ (pc \in LoopPositions /\ outcome' = "Raised") => doc = Missing
        /\ (pc = "done" /\ pc' # pc) => exit_code' # NoExit
      ]_vars

\* the plan disappeared after the first wave and the process has exited
\* with 1
C19_Witness ==
    /\ pc = "exited"
    /\ exit_code = 1
    /\ outcome = "Raised"
    /\ wave = 2
    /\ doc = Missing

(***************************************************************************)
(* C20: in autonomous mode, on a plan that holds a task, if the monitor    *)
(* loop always comes to classify every session as not Working, every       *)
(* session's task is checked off in the plan by the time the session is    *)
(* classified so, and the launches succeed, then the loop eventually stops *)
(* with AllComplete.  And the loop stops with another outcome only when no *)
(* launch was possible: the plan holds no unchecked task, or every launch  *)
(* of the wave failed and no session is active.                            *)
(***************************************************************************)
TaskDone(text, name, desc) ==
    LET lists == parse_plan_file(text).engineer_checklists IN
    \A c \in 1..Len(lists) :
        lists[c].name = name =>
            \A n \in 1..Len(lists[c].tasks) :
                lists[c].tasks[n].description = desc => lists[c].tasks[n].completed

SessionsClassified == pc # "monitor"

TasksCheckedOff ==
    pc = "reparse" =>
        \A n \in 1..Len(new_sessions) :
            TaskDone(doc, new_sessions[n].name, new_sessions[n].instruction)

LaunchesSucceed == \A k \in 1..Len(launches) : launches[k].ok

NoLaunchPossible ==
    \/ outcome = "NoTasks" /\ get_uncompleted_tasks(plan_data) = <<>>
    \/ /\ outcome = "NoProgressPossible"
       /\ active_sessions = <<>>
       /\ new_sessions = <<>>
       /\ \A k \in 1..Len(launches) : ~launches[k].ok

KeptAt(sessions, K) ==
    LET F[i \in 0..Len(sessions)] ==
            IF i = 0 THEN <<>>
            ELSE IF i \in K THEN Append(F[i - 1], [sessions[i] EXCEPT !.status = "working"])
            ELSE F[i - 1]
    IN  F[Len(sessions)]

C21_MonitorUntilEmpty ==
    [][ /\ (pc = "monitor" /\ pc' \in {"monitor", "reparse"}
              /\ <<pc, active_sessions>>' # <<pc, active_sessions>>)
            => \E found \in [1..Len(active_sessions) -> Findings] :
                  LET K == { i \in 1..Len(active_sessions) :
                               SessionStatus(active_sessions[i], found[i].text,
                                             found[i].pgrep) = "working" }
                  IN  active_sessions' = KeptAt(active_sessions, K)
        /\ (pc = "monitor" /\ pc' # "monitor") => active_sessions' = <<>>
        /\ pc' \in {"reparse", "ask", "wave"} => active_sessions' = <<>>
        /\ Len(launches') > Len(launches) => active_sessions = <<>>
        /\ \A n \in 1..Len(active_sessions') : active_sessions'[n].status = "working"
      ]_vars

\* two sessions were launched, one is classified and gone, the other is
\* still Working and the loop still monitors
C21_Witness ==
    /\ pc = "monitor"
    /\ Len(new_sessions) = 2
    /\ Len(active_sessions) = 1

(***************************************************************************)
(* C22: the parse at the start of a wave is a parse of the plan as it is   *)
(* then, and the launches of the wave are decided on it: every engineer    *)
(* whose checklist holds an unchecked item then is in the launch list with *)
(* the first such item, and no item checked then is in it; plan_data       *)
(* changes only by such a parse or by the parse after the monitoring, on   *)
(* which the completion of the wave is decided.                            *)
(***************************************************************************)
UncheckedItems(text, h) == { i \in ItemsOf(text, h) : text[i].t[2] = " " }

C22_FreshParse ==
    [][ /\ plan_data' # plan_data =>
              /\ plan_data' = parse_plan_file(doc)
              /\ wave' = wave + 1 \/ pc = "reparse"
        /\ (wave' = wave + 1 /\ doc # Missing) =>
              /\ \A h \in KeptHeadings(doc) :
                    UncheckedItems(doc, h) # {} =>
                        /\ pc' = "launch"
                        /\ \E k \in 1..Len(todo') :
                              /\ todo'[k].name = NormalizeName(doc[h].t[1])
                              /\ todo'[k].tasks[1].description
                                     = Strip(doc[Min(UncheckedItems(doc, h))].t[3])
              /\ pc' = "launch" =>
                    \A k \in 1..Len(todo') :
                        \E h \in KeptHeadings(doc) :
                            /\ todo'[k].name = NormalizeName(doc[h].t[1])
                            /\ Len(todo'[k].tasks) = Cardinality(UncheckedItems(doc, h))
              /\ (pc' = "done") <=> (\A h \in KeptHeadings(doc) : UncheckedItems(doc, h) = {})
        /\ Len(launches') = Len(launches) + 1 =>
              /\ launches'[Len(launches')].name = Head(todo).name
              /\ launches'[Len(launches')].instruction = Head(todo).tasks[1].description
              /\ plan_data' = plan_data
        /\ (pc = "reparse" /\ pc' # pc /\ doc # Missing) =>
              (outcome' = "AllComplete") <=>
                  /\ \E h \in KeptHeadings(doc) : ItemsOf(doc, h) # {}
                  /\ \A h \in KeptHeadings(doc) : UncheckedItems(doc, h) = {}
      ]_vars

\* the second wave has launched a session for an item that was checked when
\* the loop started and was unchecked after the first wave
C22_Witness ==
    /\ wave = 2
    /\ \E k \in 1..Len(launches), i \in 1..Len(doc0) :
          /\ doc0[i].k = "T"
          /\ doc0[i].t[2] # " "
          /\ launches[k].instruction = Strip(doc0[i].t[3])
          /\ launches[k].name = OwnerOf(doc0, i)

(***************************************************************************)
(* C23: while an update_plan_section invocation runs beside the loop and   *)
(* no system call fails, no parse of the loop reads the plan between the   *)
(* truncation of the file and the write of the new text; and the loop      *)
(* stops with AllComplete, or with no remaining task, only when the plan   *)
(* (the text being written, if a write is under way) holds no unchecked    *)
(* item.                                                                   *)
(***************************************************************************)
WriteUnderWay == \E p \in Procs : ppc[p] = "write"

RealDocument ==
    IF WriteUnderWay
    THEN new_content[CHOOSE p \in Procs : ppc[p] = "write"]
    ELSE doc

NoFault == \A p \in Procs : raised[p] = "none"

C23_ParseSeesWholeText ==
    [][ NoFault =>
          /\ (wave' = wave + 1 \/ (pc = "reparse" /\ pc' # pc)) => ~WriteUnderWay
          /\ (pc' = "done" /\ pc # "done" /\ outcome' \in {"AllComplete", "NoTasks"})
                => \A i \in 1..Len(RealDocument) :
                      RealDocument[i].k = "T" => RealDocument[i].t[2] # " "
      ]_vars

(***************************************************************************)
(* C24: a session whose log does not exist is classified Working whatever  *)
(* its process id and the process-name match say; no step of the loop      *)
(* removes it from the active set, and the loop stays in the monitor loop  *)
(* of that wave, however many ticks pass.                                  *)
(***************************************************************************)
NoLogYet(s) == ~LogExists(logs, LogPath(s.name, s.session_id))

C24_NoLogStaysWorking ==
    [][ /\ \A pid \in {"none", "alive", "dead"}, pgrep \in BOOLEAN :
              check_engineer_session_status("missing", <<>>, pid, pgrep) = "working"
        /\ pc = "monitor" =>
              \A i \in 1..Len(active_sessions) :
                  NoLogYet(active_sessions[i]) =>
                      /\ pc' = "monitor"
                      /\ wave' = wave
                      /\ \E j \in 1..Len(active_sessions') :
                            /\ active_sessions'[j].name = active_sessions[i].name
                            /\ active_sessions'[j].session_id = active_sessions[i].session_id
                            /\ active_sessions'[j].status = "working"
      ]_vars

\* the session of Zed has been classified and dropped; that of Alex, whose
\* log is not there, is still monitored
C24_Witness ==
    /\ pc = "monitor"
    /\ Len(new_sessions) = 2
    /\ Len(active_sessions) = 1
    /\ active_sessions[1].name = "Alex"
    /\ NoLogYet(active_sessions[1])
    /\ LogExists(logs, LogPath(new_sessions[2].name, new_sessions[2].session_id))

(***************************************************************************)
(* C25: a session that a tick classifies Completed, Blocked or Error       *)
(* leaves the active set, and its log exists, so no later launch gets its  *)
(* number; when the next wave's parse still shows its task unchecked, the  *)
(* launch list of that wave holds the same worker with the same            *)
(* instruction in front, and the launch of a list entry makes a session of *)
(* that worker and instruction with a number whose log does not exist.     *)
(***************************************************************************)
SameSession(s, t) == s.name = t.name /\ s.session_id = t.session_id

C25_RelaunchWithNewOrdinal ==
    [][ /\ pc = "monitor" =>
              \A i \in 1..Len(active_sessions) :
                  (\A j \in 1..Len(active_sessions') :
                        ~SameSession(active_sessions'[j], active_sessions[i]))
                      => ~NoLogYet(active_sessions[i])
        /\ pc \in {"reparse", "ask", "wave"} =>
              \A n \in 1..Len(new_sessions) :
                  /\ ~NoLogYet(new_sessions[n])
                  /\ \A j \in 1..Len(active_sessions') :
                        ~SameSession(active_sessions'[j], new_sessions[n])
        /\ (wave' = wave + 1 /\ pc' = "launch") =>
              \A n \in 1..Len(new_sessions) :
                  ~TaskDone(doc, new_sessions[n].name, new_sessions[n].instruction)
                      => \E k \in 1..Len(todo') :
                            /\ todo'[k].name = new_sessions[n].name
                            /\ todo'[k].tasks[1].description = new_sessions[n].instruction
        /\ Len(new_sessions') = Len(new_sessions) + 1 =>
              LET s == new_sessions'[Len(new_sessions')] IN
              /\ s.name = Head(todo).name
              /\ s.instruction = Head(todo).tasks[1].description
              /\ s.status = "working"
              /\ NoLogYet(s)
      ]_vars

\* the second wave has launched Alex again with the instruction of the first
\* wave, as session 1 beside the log of session 0
C25_Witness ==
    /\ wave = 2
    /\ Len(new_sessions) >= 1
    /\ new_sessions[1].name = "Alex"
    /\ new_sessions[1].instruction = "a1"
    /\ new_sessions[1].session_id = 1
    /\ LogExists(logs, LogPath("Alex", 0))
    /\ ~LogExists(logs, LogPath("Alex", 2))

(***************************************************************************)
(* C26: when the text an invocation read holds the exact placeholder of    *)
(* its marker, the text it writes has, in the section of the marker, the   *)
(* completed-status line where the pending-status line was, no pending     *)
(* line left, and the analysis right after the completed-status line.      *)
(***************************************************************************)
CompletedWrite(p) == ppc[p] = "write" /\ ppc'[p] = "unlock" /\ ret'[p] = "True"

C26_PlaceholderReplaced ==
    [][ \A p \in Procs :
          (CompletedWrite(p) /\ HasPlaceholder(content[p], marker[p])) =>
              LET sec == SectionOf(doc', marker[p]) IN
              /\ Len(sec) >= 3
              /\ sec[2] = CS
              /\ sec[3] = AnalysisTok(analysis[p])
              /\ ~Contains(sec, PS)
              /\ ~Contains(sec, PC) ]_vars

(***************************************************************************)
(* C27: when the text an invocation read holds the section of its marker,  *)
(* ended by a section boundary or the end marker, without the exact        *)
(* placeholder of the marker, the section of the marker in the text it     *)
(* writes is the section as it was read, followed by the completed-status  *)
(* line and the analysis (so they stand right before the next section      *)
(* boundary or the end marker, and all earlier text of the section stays). *)
(***************************************************************************)
SectionEnds(text, m) ==
    /\ HeadingsOf(text, m) # {}
    /\ BoundariesAfter(text, Min(HeadingsOf(text, m))) # {}

C27_AppendsInOwnSection ==
    [][ \A p \in Procs :
          (/\ CompletedWrite(p)
           /\ SectionEnds(content[p], marker[p])
           /\ ~HasPlaceholder(content[p], marker[p])) =>
              SectionOf(doc', marker[p]) =
                  SectionOf(content[p], marker[p])
                      \o <<CS, AnalysisTok(analysis[p])>> ]_vars

\* What lines 47-54 do when they run: in a text in which no placeholder
\* follows the heading of the marker, a boundary follows it, and no other
\* heading starts with the marker, the section gets the two lines appended.
FallbackTaken(text, m) ==
    /\ Cardinality({ i \in 1..Len(text) : HeadMatch(text, i, m) }) = 1
    /\ PatternStarts(text, 1, m) = {}
    /\ SectionStarts(text, 1, m) # {}

FallbackBranchAppends ==
    [][ \A p \in Procs :
          (/\ CompletedWrite(p)
           /\ HeadingsOf(content[p], marker[p]) # {}
           /\ FallbackTaken(content[p], marker[p])) =>
              SectionOf(doc', marker[p]) =
                  SectionOf(content[p], marker[p])
                      \o <<CS, AnalysisTok(analysis[p])>> ]_vars

(***************************************************************************)
(* C28: a readable log without sentinel and without a blocking keyword in  *)
(* its last 30 lines, of a session whose process is not alive (neither by  *)
(* pid nor by the process-name match), is Completed exactly when the text  *)
(* is longer than 500 characters and Error otherwise: 500 characters give  *)
(* Error, 501 give Completed.                                              *)
(***************************************************************************)
Sentinels == {"done", "err", "timeout"}

SizeRuleDecides ==
    /\ c_out # "none"
    /\ c_in.file = "ok"
    /\ ~HasKind(c_in.log, Sentinels)
    /\ RecentKinds(c_in.log) \cap BlockingKinds = {}
    /\ c_in.pid # "alive"
    /\ ~c_in.pgrep

C28_SizeThreshold ==
    SizeRuleDecides =>
        /\ c_out \in {"completed", "error"}
        /\ c_out = "completed" <=> TextLen(c_in.log) > 500
        /\ TextLen(c_in.log) = 500 => c_out = "error"

\* a log of exactly 500 characters, classified Error
C28_Witness ==
    /\ SizeRuleDecides
    /\ TextLen(c_in.log) = 500
    /\ c_out = "error"

\* a log of 501 characters, classified Completed
C28_JustAbove ==
    /\ SizeRuleDecides
    /\ TextLen(c_in.log) = 501
    /\ c_out = "completed"

(***************************************************************************)
(* C29: for a readable log without sentinel, a line holding "blocked",     *)
(* "waiting for" or "cannot proceed" (in any case of letters) among the    *)
(* last 30 lines gives Blocked, also when the process is alive; when such  *)
(* lines stand only before the last 30 lines the result is not Blocked,    *)
(* and is Working when the process is alive.                               *)
(***************************************************************************)
\* some line of a blocking kind is one of the last 30 lines of the text
KeywordInTail(log) ==
    \E i \in 1..Len(log) :
        /\ log[i].kind \in {"blocked", "BLOCKED", "waiting", "cannot"}
        /\ LineCount(SubSeq(log, 1, i)) + 30 > LineCount(log)

ProcessAlive == c_in.pid = "alive" \/ c_in.pgrep

C29_BlockedByRecentKeyword ==
    (c_out # "none" /\ c_in.file = "ok" /\ ~HasKind(c_in.log, Sentinels)) =>
        /\ KeywordInTail(c_in.log) => c_out = "blocked"
        /\ ~KeywordInTail(c_in.log) =>
              /\ c_out # "blocked"
              /\ ProcessAlive => c_out = "working"

\* a keyword on the 30th line from the end, process alive by its pid: Blocked
C29_Witness ==
    /\ c_out = "blocked"
    /\ c_in.file = "ok"
    /\ c_in.pid = "alive"
    /\ Len(c_in.log) = 2
    /\ c_in.log[1] = [kind |-> "BLOCKED", n |-> 1]
    /\ c_in.log[2].n = 29
    /\ c_in.log[2].kind = "text"

\* a keyword on the 31st line from the end only, process alive: Working
C29_EarlyKeyword ==
    /\ c_out = "working"
    /\ c_in.file = "ok"
    /\ ProcessAlive
    /\ Len(c_in.log) = 2
    /\ c_in.log[1] = [kind |-> "waiting", n |-> 1]
    /\ c_in.log[2] = [kind |-> "text", n |-> 30]

(***************************************************************************)
(* C30: every classification ends with one of Working, Completed, Blocked, *)
(* Error, never with an exception; a log that exists and cannot be read    *)
(* (so that no rule of the cascade is evaluated) gives Working, whatever   *)
(* the process state, which keeps the session among the active ones.       *)
(***************************************************************************)
EngineerStatus == {"working", "completed", "blocked", "error"}

C30_AlwaysAStatus ==
    c_out # "none" =>
        /\ c_out \in EngineerStatus
        /\ c_in.file = "unreadable" => c_out = "working"

\* an unreadable log of a session whose process is gone, classified Working
C30_Witness ==
    /\ c_out = "working"
    /\ c_in.file = "unreadable"
    /\ c_in.pid = "dead"
    /\ ~c_in.pgrep

(***************************************************************************)
(* C31: during the launch loop of every wave the active set is empty and   *)
(* so is the set of working engineers; the engineer the loop looks at next *)
(* is therefore never skipped as already working and has a pending task,   *)
(* and when the loop is over the launch was attempted for as many          *)
(* engineers as the parse of the wave gives a pending task.                *)
(***************************************************************************)
C31_LaunchOnEmptySet ==
    pc = "launch" =>
        /\ active_sessions = <<>>
        /\ working_engineers = {}
        /\ todo # <<>> =>
              /\ Head(todo).name \notin working_engineers
              /\ Head(todo).tasks # <<>>
        /\ Len(launches) + Len(todo) = Len(get_uncompleted_tasks(plan_data))

\* the launch loop of a second wave, with an engineer still to look at
C31_Witness ==
    /\ pc = "launch"
    /\ wave = 2
    /\ todo # <<>>
    /\ launches # <<>>

(***************************************************************************)
(* C32: with logs created only by launched sessions and never deleted, a   *)
(* session is launched for a worker only when the log of every earlier     *)
(* session of that worker in this run exists, and its number is greater    *)
(* than theirs; so the sessions of a run have pairwise different log files *)
(* (as many log references as sessions counted).                           *)
(***************************************************************************)
EarlierOf(name) == { p \in all_sessions : p[1] = name }

C32_OrdinalsGrow ==
    [][ /\ logs \subseteq logs'
        /\ Cardinality(all_sessions') = total_sessions'
        /\ Len(new_sessions') = Len(new_sessions) + 1 =>
              LET s == new_sessions'[Len(new_sessions')] IN
              /\ all_sessions' = all_sessions \cup {LogPath(s.name, s.session_id)}
              /\ LogPath(s.name, s.session_id) \notin all_sessions
              /\ \A p \in EarlierOf(s.name) :
                    /\ LogExists(logs, p)
                    /\ p[2] < s.session_id
      ]_vars

\* Alex has been launched twice, as session 1 and, past the log numbered 2
\* of an earlier run, as session 3
C32_Witness ==
    /\ LogPath("Alex", 1) \in all_sessions
    /\ LogPath("Alex", 3) \in all_sessions
    /\ total_sessions = 2

(***************************************************************************)
(* C33: a step of coordinator_loop (parse, launch, monitor, report,        *)
(* decide) leaves the plan document and the session logs as they are.  The *)
(* document changes only in a step of an update_plan_section invocation or *)
(* when an engineer checks one box; the log directory only gains the log   *)
(* of a launched session.                                                  *)
(***************************************************************************)
BoxChecked(old, new) ==
    /\ Len(new) = Len(old)
    /\ \E i \in 1..Len(old) :
          /\ old[i].k = "T"
          /\ old[i].t[2] = " "
          /\ new = [old EXCEPT ![i].t = <<old[i].t[1], new[i].t[2], old[i].t[3]>>]

PatcherStep == \E p \in Procs : ppc'[p] # ppc[p]

C33_LoopWritesNothing ==
    [][ /\ loopVars' # loopVars => (doc' = doc /\ logs' = logs)
        /\ doc' # doc => (PatcherStep \/ BoxChecked(doc, doc'))
        /\ logs' # logs =>
              \E s \in LaunchedNow : logs' = logs \cup {LogPath(s.name, s.session_id)}
      ]_vars

\* the loop has parsed, launched, monitored and parsed again a plan that an
\* engineer and an update_plan_section invocation have changed meanwhile
C33_Witness ==
    /\ wave >= 1
    /\ pc \in {"wave", "done"}
    /\ total_sessions >= 1
    /\ logs # {}
    /\ ret[1] = "True"
    /\ \E i \in 1..Len(doc) : doc[i].k = "T" /\ doc[i].t[2] = "X"
    /\ Contains(doc, CS)

(***************************************************************************)
(* C34: add_tasks_to_table and update_plan_section lock the same file, so  *)
(* while a call of either is between its read and the end of its write no  *)
(* other call is, the text a call is about to overwrite is the text it     *)
(* read, and what a call writes still holds every contribution (analysis   *)
(* or task rows) of another call that the text it read held.               *)
(***************************************************************************)
InTableCycle(p) ==
    ppc[p] \in {"compute", "open", "write", "add_compute", "add_open", "add_write"}

Contributions(q) == {AnalysisTok(analysis[q]), TasksTok(analysis[q])}

C34_SameLockNoLostUpdate ==
    [][ \A p \in Procs :
          /\ InTableCycle(p) =>
                /\ \A q \in Procs \ {p} : ~InTableCycle(q)
                /\ ppc[p] \in {"compute", "open", "add_compute", "add_open"}
                      => content[p] = doc
          /\ (ppc[p] \in {"write", "add_write"} /\ ret'[p] = "True") =>
                \A q \in Procs \ {p} : \A tok \in Contributions(q) :
                    Contains(content[p], tok) => Contains(doc', tok)
      ]_vars

\* an update_plan_section call and an add_tasks_to_table call have both
\* returned True, and the plan holds the analysis and the task rows
C34_Witness ==
    /\ AllDone
    /\ \A p \in Procs : ret[p] = "True"
    /\ \E p, q \in Procs :
          /\ Contains(doc, AnalysisTok(analysis[p]))
          /\ Contains(doc, TasksTok(analysis[q]))

(***************************************************************************)
(* C35: a checklist of the parsed plan whose name is outside the roster is *)
(* absent from engineers_needed and still scheduled like the others: its   *)
(* tasks are counted in the total, an unchecked one keeps the percentage   *)
(* below 100, and the launch loop of the wave calls the launch for the     *)
(* name, once, with its first unchecked task.                              *)
(***************************************************************************)
Outsiders(plan) ==
    { i \in 1..Len(plan.engineer_checklists) :
        ~InRoster(plan.engineer_checklists[i].name) }

C35_OutsiderScheduled ==
    \A i \in Outsiders(plan_data) :
        LET cl == plan_data.engineer_checklists[i]
            pr == get_plan_progress(plan_data)
        IN  /\ cl.name \notin Range(plan_data.engineers_needed)
            /\ pr.total = Cardinality(TaskSlots(plan_data))
            /\ pr.total >= Len(cl.tasks)
            /\ HasUnchecked(cl.tasks) => pr.percentage < 100
            /\ (LaunchOver /\ HasUnchecked(cl.tasks)) =>
                  \E k \in 1..Len(launches) :
                     /\ CallsFor(cl.name) = {k}
                     /\ launches[k].instruction = FirstUnchecked(cl.tasks).description

\* a session of Zed, who has a checklist and is not of the roster, is
\* monitored in a wave whose plan asks for Alex alone
C35_Witness ==
    /\ pc = "monitor"
    /\ ~InRoster("Zed")
    /\ plan_data.engineers_needed = <<"Alex">>
    /\ \E n \in 1..Len(active_sessions) :
          /\ active_sessions[n].name = "Zed"
          /\ active_sessions[n].instruction = "b1"
          /\ active_sessions[n].status = "working"

(***************************************************************************)
(* C36: when every process that holds the lock goes on to the end of its   *)
(* read-modify-write or dies, every invocation that waits for the lock     *)
(* gets it (or dies itself), and every invocation ends: it has returned    *)
(* True or False, or its process has died.  A holder that dies does not    *)
(* keep the others waiting.                                                *)
(***************************************************************************)
C36_EveryCallReturns ==
    \A p \in Procs :
        /\ [](ppc[p] = "flock" => <>(lock = p \/ ppc[p] = "dead"))
        /\ <>[](\/ ppc[p] = "dead"
                \/ ppc[p] = "done" /\ ret[p] \in {"True", "False"} /\ lock # p)

\* an invocation died in the middle of its write, holding the lock, and
\* another one has the lock after it
C36_Witness ==
    \E p, q \in Procs :
        /\ ppc[p] = "dead"
        /\ wrote[p]
        /\ ret[p] = "none"
        /\ lock = q
        /\ ppc[q] = "read"

=============================================================================
